---- MODULE Spec2Model ----
(***************************************************************************)
(* Bot orchestration of vexa: the Nomad backend driver                     *)
(* (services/bot-manager/app/orchestrators/nomad.py), the Redis key        *)
(* helpers (libs/shared-models/shared_models/redis_keys.py), and the       *)
(* Facade, Concurrency Gate and Reconciler that drive them.  The driver    *)
(* and the key helpers are translated from their source; the Facade, the   *)
(* Gate and the Reconciler are not part of the source tree at hand and are *)
(* modelled from spec.md sections 3 to 7.  The admin API                   *)
(* (services/admin-api/app: main.py, api/routes, crud) is translated from  *)
(* its source, one step per await of a handler; every request has a        *)
(* database session of its own.                                            *)
(***************************************************************************)
EXTENDS Integers, Sequences, FiniteSets, TLC

\* ------------------------------------------------------------------ bounds
\* StartBot calls issued under Spec (each call slot is used once).
MaxCalls == 2
\* StartBot calls issued by the one user of SpecQuota.
QuotaCalls == 3
\* Users are 1..NumUsers.
NumUsers == 2
\* Reconciler passes are timed 1..MaxTime: passes begun while a check of time
\* MaxTime is on record are left out.
MaxTime == 2
\* Plan limits are drawn from 1..MaxLimit.
MaxLimit == 2
\* Meeting ids requested under Spec are 1..MaxMeetings.
MaxMeetings == 2

\* Create-user and webhook requests issued (each request slot is used once).
MaxCreates == 2
\* Rows of the users table under SpecAdmin and SpecWebhook.
MaxUsers == 2
\* API tokens ever created.
MaxTokens == 2
\* API tokens ever created under SpecAdmin.
AdminTokens == 1
\* Rows ever inserted into the plans table under SpecPlans.
MaxPlans == 2
\* Rows ever inserted into the user_plans table under SpecPlans.
MaxAssignments == 2
\* Request slots of the billing routes: requests in flight at a time under SpecPlans.
MaxPlanCalls == 2
\* Request slots of the user and token routes: requests in flight at a time.
MaxHandlers == 2

Calls == 1..(IF QuotaCalls > MaxCalls THEN QuotaCalls ELSE MaxCalls)
Users == 1..NumUsers
Meetings == 1..MaxMeetings

VARIABLES
    calls,      \* per StartBot call: position, request, dispatch outcome, driver return, result
    jobs,       \* the Nomad cluster: job id -> [Status, Allocs, Meta]
    sessions,   \* the session store: call id -> session record
    leases,     \* the Gate's store: Redis set key -> set of lease holders (call ids)
    planLimit,  \* the plan-derived bot limit of every user (external lookup)
    recon,      \* the Reconciler pass in progress: user, jobs listed, position, bots found
    users,      \* the users table: sequence of rows [id, email, name, max_concurrent_bots, data, live]
    creates,    \* per create-user or webhook request: position, path, request, user read, columns to write, status
    emailUnique, \* whether the users table rejects a second row with the same email
    tokens,     \* the api_tokens table: sequence of rows [id, user_id, token, live]
    adminEnv,   \* the process environment: ADMIN_API_TOKEN, STRIPE_WEBHOOK_SECRET
    handlers,   \* per request slot of the user and token routes: position, request, object read, columns to write, status
    plans,      \* the plans table: sequence of rows [id, name, max_concurrent_bots, model_limits, live, pending]
    userPlans,  \* the user_plans table: sequence of rows [id, user_id, plan_id, live]
    planCalls   \* per request slot of the billing routes: position, request, object read, status

orchVars == <<calls, jobs, sessions, leases, planLimit, recon>>
createVars == <<users, creates, emailUnique>>
apiVars == <<tokens, adminEnv, handlers>>
billingVars == <<plans, userPlans, planCalls>>
adminVars == <<users, creates, emailUnique, tokens, adminEnv, handlers,
               plans, userPlans, planCalls>>
vars == <<calls, jobs, sessions, leases, planLimit, recon, users, creates, emailUnique,
          tokens, adminEnv, handlers, plans, userPlans, planCalls>>

\* ------------------------------------------------------------- Python values
\* Python's None.  Every optional value of the model is a string, so None is one too.
None == "<None>"

\* Python truthiness of an Optional[str]: None and the empty string are falsy.
Falsy(x) == x = None \/ x = ""

\* Python's `x or d`.
PyOr(x, d) == IF Falsy(x) THEN d ELSE x

\* str(int)
str(n) == ToString(n)

\* A token source that repeats: the same token for every call.
uuid4_repeating(c, k) == "uuid-" \o ToString(k)

\* str(uuid.uuid4()): a fresh token per invocation.  Invocation k of call c.
uuid4(c, k) == "uuid-" \o ToString(c) \o "-" \o ToString(k)

\* ------------------------------------------------------------- redis_keys.py
BOT_COMMAND_PREFIX == "bot_commands:"
ACTIVE_BOTS_PREFIX == "active_bots:"

\* Variant with one channel for every session.
get_bot_command_channel_shared(connection_id) == BOT_COMMAND_PREFIX

get_bot_command_channel(connection_id) == BOT_COMMAND_PREFIX \o connection_id

get_active_bots_key(user_id) == ACTIVE_BOTS_PREFIX \o str(user_id)

\* --------------------------------------------------------------- requests
\* The StartBot inputs.  Optional fields (meeting_url, bot_name, user_token, language,
\* task) are absent (None) for some meetings, empty for some and present for others.
Request(u, m) ==
    [ user_id           |-> u,
      meeting_id        |-> m,
      meeting_url       |-> IF m = 1 THEN None ELSE "https://meet.example/" \o ToString(m),
      platform          |-> "google_meet",
      bot_name          |-> IF m = 2 THEN None ELSE "VexaBot",
      user_token        |-> IF m = 1 THEN None ELSE IF m = 3 THEN "" ELSE "token-" \o ToString(u),
      native_meeting_id |-> "native-" \o ToString(m),
      language          |-> IF m = 1 THEN None ELSE "en",
      task              |-> IF m = 2 THEN None ELSE IF m = 3 THEN "" ELSE "transcribe" ]

NoRequest == Request(0, 0)

\* ------------------------------------------------------ nomad.py: start
\* Variant that copies the request's optional values as they are.
BuildMetaPassThrough(req, connection_id) ==
    [ user_id           |-> str(req.user_id),
      meeting_id        |-> str(req.meeting_id),
      meeting_url       |-> req.meeting_url,
      platform          |-> req.platform,
      bot_name          |-> req.bot_name,
      user_token        |-> req.user_token,
      native_meeting_id |-> req.native_meeting_id,
      connection_id     |-> connection_id,
      language          |-> req.language,
      task              |-> req.task ]

\* The metadata map of the dispatch payload (lines 64-75).
BuildMeta(req, connection_id) ==
    [ user_id           |-> str(req.user_id),
      meeting_id        |-> str(req.meeting_id),
      meeting_url       |-> PyOr(req.meeting_url, ""),
      platform          |-> req.platform,
      bot_name          |-> PyOr(req.bot_name, ""),
      user_token        |-> PyOr(req.user_token, ""),
      native_meeting_id |-> req.native_meeting_id,
      connection_id     |-> connection_id,
      language          |-> PyOr(req.language, ""),
      task              |-> PyOr(req.task, "") ]

\* What can come back from POST /v1/job/vexa-bot/dispatch, and whether Nomad
\* registered the dispatched job.  kind "response": an HTTP response arrived;
\* "timeout": the request was sent and no response was read within 10 s;
\* "connect_error": the request never reached Nomad.
JobIdOf(c, k) == "vexa-bot/dispatch-" \o ToString(c) \o "-" \o ToString(k)
EvalIdOf(c) == "eval-" \o ToString(c)

Reply(kind, status, json_ok, job, eval) ==
    [kind |-> kind, status |-> status, json_ok |-> json_ok,
     DispatchedJobID |-> job, EvaluationID |-> eval]

DispatchOutcomes ==
    {"ok_job", "ok_eval", "ok_noid", "bad_body", "http_error", "redirect",
     "timeout_launched", "timeout_lost", "connect_error"}

ReplyOf(outcome, c) ==
    CASE outcome = "ok_job"    -> Reply("response", 200, TRUE, JobIdOf(c, 1), EvalIdOf(c))
      [] outcome = "ok_eval"   -> Reply("response", 200, TRUE, None, EvalIdOf(c))
      [] outcome = "ok_noid"   -> Reply("response", 200, TRUE, None, None)
      [] outcome = "bad_body"  -> Reply("response", 200, FALSE, None, None)
      [] outcome = "http_error" -> Reply("response", 500, TRUE, None, None)
      [] outcome = "redirect"  -> Reply("response", 302, TRUE, None, None)
      [] outcome \in {"timeout_launched", "timeout_lost"} -> Reply("timeout", 0, FALSE, None, None)
      [] OTHER                 -> Reply("connect_error", 0, FALSE, None, None)

Launched(outcome) ==
    outcome \in {"ok_job", "ok_eval", "ok_noid", "bad_body", "timeout_launched"}

\* Outcomes by the error taxonomy of spec.md section 7.
AcceptedOutcomes == {"ok_job", "ok_eval", "ok_noid"}
RejectedOutcomes == {"http_error", "redirect"}
AmbiguousOutcomes == {"timeout_launched", "timeout_lost", "connect_error"}

\* resp.raise_for_status() (line 92) lets a response pass when its status is a
\* success, 2xx; for every other status, a redirect included (the client does
\* not follow redirects), it raises HTTPStatusError.
is_success(status) == status \in 200..299

\* The (None, None) of line 123.
NoneNone == [container_id |-> None, connection_id |-> None]

\* Variant that resends the POST when no response arrived.
DispatchAttemptsRetry(reply) == IF reply.kind = "response" THEN 1 ELSE 2
\* Number of POSTs one invocation issues: one client.post in the try block, no loop.
DispatchAttempts(reply) == 1

\* Variant without raise_for_status: an error response is parsed like a success.
start_bot_container_no_raise(reply, connection_id, fallback) ==
    IF reply.kind # "response" THEN NoneNone
    ELSE IF ~reply.json_ok THEN NoneNone
    ELSE LET dispatched_id == PyOr(reply.DispatchedJobID, reply.EvaluationID)
         IN  [container_id  |-> IF Falsy(dispatched_id)
                                THEN "unknown-" \o fallback ELSE dispatched_id,
              connection_id |-> connection_id]

\* Variant without the fallback id of line 99: a response without an id is a failure.
start_bot_container_strict(reply, connection_id, fallback) ==
    IF reply.kind # "response" THEN NoneNone
    ELSE IF ~is_success(reply.status) THEN NoneNone
    ELSE IF ~reply.json_ok THEN NoneNone
    ELSE LET dispatched_id == PyOr(reply.DispatchedJobID, reply.EvaluationID)
         IN  IF Falsy(dispatched_id) THEN NoneNone
             ELSE [container_id |-> dispatched_id, connection_id |-> connection_id]

\* Variant that hands back the connection_id when no response arrived.
start_bot_container_partial(reply, connection_id, fallback) ==
    IF reply.kind # "response" THEN [container_id |-> None, connection_id |-> connection_id]
    ELSE IF ~is_success(reply.status) THEN NoneNone
    ELSE IF ~reply.json_ok THEN NoneNone
    ELSE LET dispatched_id == PyOr(reply.DispatchedJobID, reply.EvaluationID)
         IN  [container_id  |-> IF Falsy(dispatched_id)
                                THEN "unknown-" \o fallback ELSE dispatched_id,
              connection_id |-> connection_id]

\* The return value of start_bot_container for the reply of its POST (lines 89-123).
\* json_ok: resp.json() gave an object that data.get can be called on.
start_bot_container(reply, connection_id, fallback) ==
    IF reply.kind # "response" THEN NoneNone                \* except httpx.HTTPError
    ELSE IF ~is_success(reply.status) THEN NoneNone         \* raise_for_status
    ELSE IF ~reply.json_ok THEN NoneNone                    \* resp.json() raises
    ELSE LET dispatched_id == PyOr(reply.DispatchedJobID, reply.EvaluationID)
         IN  [container_id  |-> IF Falsy(dispatched_id)
                                THEN "unknown-" \o fallback ELSE dispatched_id,
              connection_id |-> connection_id]

\* ------------------------------------------------------- nomad.py: stop
\* The stub of lines 126-136: logs and returns False.
stop_bot_container(container_id) == FALSE

\* ----------------------------------------------- nomad.py: status queries
\* Outcome of GET /v1/jobs, and of the GET /v1/job/<id> of each running job.
ListOutcomes == {"ok", "http_error", "transport_error"}
DetailOutcomes == {"ok", "non200", "transport_error"}

RunningAllocations(job) == {a \in job.Allocs : a = "running"}

\* Variant that reports the job id as the connection id.
BotInfoByJobId(job_id, user_id) ==
    LET meta == jobs[job_id].Meta
    IN  [ container_id      |-> job_id,
          connection_id     |-> job_id,
          meeting_id        |-> meta.meeting_id,
          platform          |-> meta.platform,
          native_meeting_id |-> meta.native_meeting_id,
          bot_name          |-> meta.bot_name,
          status            |-> "running",
          start_time        |-> jobs[job_id].SubmitTime,
          user_id           |-> user_id ]

\* meta.get(key, "") on the stored metadata.
BotInfo(job_id, user_id) ==
    LET meta == jobs[job_id].Meta
    IN  [ container_id      |-> job_id,
          connection_id     |-> meta.connection_id,
          meeting_id        |-> meta.meeting_id,
          platform          |-> meta.platform,
          native_meeting_id |-> meta.native_meeting_id,
          bot_name          |-> meta.bot_name,
          status            |-> "running",
          start_time        |-> jobs[job_id].SubmitTime,
          user_id           |-> user_id ]

\* Jobs the list endpoint returns for prefix vexa-bot and filter Meta.user_id == "<user_id>".
JobsData(user_id) == {j \in DOMAIN jobs : jobs[j].Meta.user_id = str(user_id)}

\* The listed jobs that pass the status check of line 167.
RunningJobs(user_id) == {j \in JobsData(user_id) : jobs[j].Status = "running"}

\* The job ids Nomad can hold, in the order of its list answer.
JobSlots == [i \in 1..(2 * Cardinality(Calls)) |-> JobIdOf((i + 1) \div 2, 2 - (i % 2))]

\* The answer to the list GET of line 156, cut down to the entries the loop
\* does not skip at line 167: the ids of the user's jobs whose Status in the
\* list answer is "running", in the order of the answer.
ListedRunning(user_id) ==
    SelectSeq(JobSlots, LAMBDA j : j \in RunningJobs(user_id))

\* Variant without the allocation check of line 184.
DetailBots_unfiltered(job_id, user_id, q) ==
    IF q # "ok" THEN {} ELSE {BotInfo(job_id, user_id)}

\* One turn of the loop for a listed job: the detail GET of line 173, answered
\* on the cluster as it is at that moment.  q = "non200": the answer is not
\* 200 and the job is passed over; q = "ok": the job is reported when one of
\* its allocations runs (lines 176-199).  A transport error leaves the loop
\* and is not handled here.
DetailBots(job_id, user_id, q) ==
    IF q # "ok" THEN {}
    ELSE IF RunningAllocations(jobs[job_id]) = {} THEN {}
    ELSE {BotInfo(job_id, user_id)}

\* One outcome for the detail query of every running job of the user.
DetailAnswers(user_id) == [RunningJobs(user_id) -> DetailOutcomes]
AllOk(user_id) == [j \in RunningJobs(user_id) |-> "ok"]

\* get_running_bots_status on a cluster that does not change between its
\* requests.  list_q: outcome of the list query; detail_q[j]: outcome of the
\* detail query of job j.  The result is a list in the code; its order is that
\* of Nomad's answer and nothing depends on it.  The requests of one call are
\* separate steps of the model (ReconcileList, ReconcileDetail), between which
\* the cluster moves.
get_running_bots_status(user_id, list_q, detail_q) ==
    IF list_q # "ok" THEN {}                               \* lines 206-214
    ELSE IF \E j \in RunningJobs(user_id) : detail_q[j] = "transport_error" THEN {}
    ELSE UNION {DetailBots(j, user_id, detail_q[j]) : j \in RunningJobs(user_id)}

\* Status code of GET /v1/job/<container_id>: Nomad answers 200 for a job it
\* knows, 404 for one it does not, and a 5xx when it cannot serve the request.
JobStatusCode(container_id, q) ==
    IF q = "non200" THEN 500 ELSE IF container_id \in DOMAIN jobs THEN 200 ELSE 404

\* Variant that looks at the job's Status only, not at its allocations.
verify_container_running_status_only(container_id, q) ==
    IF q = "transport_error" THEN FALSE
    ELSE IF JobStatusCode(container_id, q) # 200 THEN FALSE
    ELSE jobs[container_id].Status = "running"

\* verify_container_running (lines 217-261).  q is the outcome of the one GET.
verify_container_running(container_id, q) ==
    IF q = "transport_error" THEN FALSE
    ELSE IF JobStatusCode(container_id, q) # 200 THEN FALSE
    ELSE IF jobs[container_id].Status # "running" THEN FALSE
    ELSE Cardinality(RunningAllocations(jobs[container_id])) > 0

\* A worker process is up: its job runs and has a running allocation.
JobLive(j) ==
    j \in DOMAIN jobs /\ jobs[j].Status = "running" /\ RunningAllocations(jobs[j]) # {}

\* ------------------------------------------------------------ session store
ActiveStatus == {"pending", "running"}
TerminalStatus == {"stopped", "failed"}

ActiveSessions(S, u) == {c \in DOMAIN S : S[c].user_id = u /\ S[c].status \in ActiveStatus}

InFlight == {c \in Calls : calls[c].pc \in {"admitted", "posted", "returned"}}

\* Leases held for a user.
LeasesOf(L, u) == L[get_active_bots_key(u)]

Release(L, u, cs) == [L EXCEPT ![get_active_bots_key(u)] = @ \ cs]

\* ---------------------------------------------------------- Concurrency Gate
\* Variant that counts the recorded sessions only, not the reservations in flight.
GateHasSlotSessionsOnly(u) == Cardinality(ActiveSessions(sessions, u)) < planLimit[u]
\* admit(user_id): the count of the check-and-reserve step, which Admit takes atomically.
GateHasSlot(u) == Cardinality(LeasesOf(leases, u)) < planLimit[u]

\* Variant that looks at the recorded sessions only, not at the dispatches in flight.
MeetingActiveSessionsOnly(u, m) ==
    \E c \in ActiveSessions(sessions, u) : sessions[c].meeting_id = m

\* A pending or running session, or a dispatch in flight, for the same meeting.
MeetingActive(u, m) ==
    \/ \E c \in ActiveSessions(sessions, u) : sessions[c].meeting_id = m
    \/ \E c \in InFlight : calls[c].req.user_id = u /\ calls[c].req.meeting_id = m

\* ------------------------------------------------------------------- Facade
NoMeta == BuildMeta(NoRequest, "")

IdleCall == [pc |-> "idle", req |-> NoRequest, outcome |-> "none", posts |-> 0,
             meta |-> NoMeta, ret |-> NoneNone, result |-> "none"]

\* Call slots are taken in order, and users and meetings are named in the order of
\* their first request: every other run is one of these with the names permuted.
Started == {c \in Calls : calls[c].pc # "idle"}
UsedUsers == Cardinality({calls[c].req.user_id : c \in Started})
UsedMeetings == Cardinality({calls[c].req.meeting_id : c \in Started})

\* StartBot, up to the dispatch: duplicate check and Gate admission.
Admit(c, u, m) ==
    /\ calls[c].pc = "idle"
    /\ \A d \in Calls : d < c => calls[d].pc # "idle"
    /\ u <= UsedUsers + 1 /\ m <= UsedMeetings + 1
    /\ IF MeetingActive(u, m)
       THEN /\ calls' = [calls EXCEPT ![c] = [@ EXCEPT !.pc = "done", !.req = Request(u, m),
                                                       !.result = "InvalidRequest"]]
            /\ UNCHANGED leases
       ELSE IF GateHasSlot(u)
       THEN /\ calls' = [calls EXCEPT ![c] = [@ EXCEPT !.pc = "admitted", !.req = Request(u, m)]]
            /\ leases' = [leases EXCEPT ![get_active_bots_key(u)] = @ \cup {c}]
       ELSE /\ calls' = [calls EXCEPT ![c] = [@ EXCEPT !.pc = "done", !.req = Request(u, m),
                                                       !.result = "QuotaExceeded"]]
            /\ UNCHANGED leases
    /\ UNCHANGED <<jobs, sessions, planLimit>>
    /\ UNCHANGED recon
    /\ UNCHANGED adminVars

NewJob(req, connection_id, c) ==
    [Status |-> "running", Allocs |-> {"pending"}, Meta |-> BuildMeta(req, connection_id),
     SubmitTime |-> "submit-" \o ToString(c)]

\* start_bot_container up to the await of line 91: the connection_id is drawn,
\* the payload built and the POST sent.  registered: the request reached Nomad
\* and Nomad registered the dispatched job, which it does while the coroutine
\* waits for the response.
DriverPost(c, registered) ==
    /\ calls[c].pc = "admitted"
    /\ LET connection_id == uuid4(c, 1)
       IN  /\ calls' = [calls EXCEPT ![c] =
                          [@ EXCEPT !.pc = "posted", !.posts = @ + 1,
                                    !.meta = BuildMeta(calls[c].req, connection_id)]]
           /\ jobs' = IF registered
                      THEN [j \in DOMAIN jobs \cup {JobIdOf(c, 1)} |->
                              IF j \in DOMAIN jobs THEN jobs[j]
                              ELSE NewJob(calls[c].req, connection_id, c)]
                      ELSE jobs
    /\ UNCHANGED <<sessions, leases, planLimit>>
    /\ UNCHANGED recon
    /\ UNCHANGED adminVars

\* Jobs a start registers beyond the first when it sends n POSTs.
FurtherJobs(c, outcome, n) == IF Launched(outcome) THEN {JobIdOf(c, k) : k \in 2..n} ELSE {}

\* Variant in which the driver's start writes the session record itself.
DriverReturnRecording(c, outcome) ==
    /\ calls[c].pc = "posted"
    /\ Launched(outcome) <=> JobIdOf(c, 1) \in DOMAIN jobs
    /\ LET reply == ReplyOf(outcome, c)
           connection_id == calls[c].meta.connection_id
           n == DispatchAttempts(reply)
           ret == start_bot_container(reply, connection_id, uuid4(c, 2))
       IN  /\ calls' = [calls EXCEPT ![c] =
                          [@ EXCEPT !.pc = "returned", !.outcome = outcome,
                                    !.posts = @ + (n - 1), !.ret = ret]]
           /\ jobs' = [j \in DOMAIN jobs \cup FurtherJobs(c, outcome, n) |->
                          IF j \in DOMAIN jobs THEN jobs[j]
                          ELSE NewJob(calls[c].req, connection_id, c)]
           /\ sessions' = IF ret = NoneNone THEN sessions
                          ELSE [d \in DOMAIN sessions \cup {c} |->
                                  IF d = c
                                  THEN [connection_id |-> ret.connection_id,
                                        backend_job_id |-> ret.container_id,
                                        user_id |-> calls[c].req.user_id,
                                        meeting_id |-> calls[c].req.meeting_id,
                                        status |-> "pending", stop_acked |-> FALSE,
                                        last_verified_at |-> 0]
                                  ELSE sessions[d]]
    /\ UNCHANGED <<leases, planLimit>>
    /\ UNCHANGED recon
    /\ UNCHANGED adminVars

\* start_bot_container from the answer to its POST (lines 91-123): the
\* response, the timeout or the transport error, and the value returned.  The
\* outcome is one that fits what Nomad did with the request.
DriverReturn(c, outcome) ==
    /\ calls[c].pc = "posted"
    /\ Launched(outcome) <=> JobIdOf(c, 1) \in DOMAIN jobs
    /\ LET reply == ReplyOf(outcome, c)
           connection_id == calls[c].meta.connection_id
           n == DispatchAttempts(reply)
       IN  /\ calls' = [calls EXCEPT ![c] =
                          [@ EXCEPT !.pc = "returned", !.outcome = outcome,
                                    !.posts = @ + (n - 1),
                                    !.ret = start_bot_container(reply, connection_id, uuid4(c, 2))]]
           /\ jobs' = [j \in DOMAIN jobs \cup FurtherJobs(c, outcome, n) |->
                          IF j \in DOMAIN jobs THEN jobs[j]
                          ELSE NewJob(calls[c].req, connection_id, c)]
    /\ UNCHANGED <<sessions, leases, planLimit>>
    /\ UNCHANGED recon
    /\ UNCHANGED adminVars

\* The record of a dispatch that returned a handle.  last_verified_at is the
\* time of the last check that found the session's worker on the backend; the
\* dispatch does not set it, and 0 stands for "no check yet".
NewSession(req, ret) ==
    [connection_id |-> ret.connection_id, backend_job_id |-> ret.container_id,
     user_id |-> req.user_id, meeting_id |-> req.meeting_id,
     status |-> "pending", stop_acked |-> FALSE, last_verified_at |-> 0]

\* StartBot, after the dispatch: session bookkeeping, or release of the lease.
Record(c) ==
    /\ calls[c].pc = "returned"
    /\ IF calls[c].ret # NoneNone
       THEN /\ sessions' = [d \in DOMAIN sessions \cup {c} |->
                               IF d = c THEN NewSession(calls[c].req, calls[c].ret)
                               ELSE sessions[d]]
            /\ calls' = [calls EXCEPT ![c] = [@ EXCEPT !.pc = "done", !.result = "SessionHandle"]]
            /\ UNCHANGED leases
       ELSE /\ leases' = Release(leases, calls[c].req.user_id, {c})
            /\ calls' = [calls EXCEPT ![c] = [@ EXCEPT !.pc = "done", !.result = "DispatchFailed"]]
            /\ UNCHANGED sessions
    /\ UNCHANGED <<jobs, planLimit>>
    /\ UNCHANGED recon
    /\ UNCHANGED adminVars

\* The job that carries a connection id, if any.
JobsOfConnection(connection_id) ==
    {j \in DOMAIN jobs : jobs[j].Meta.connection_id = connection_id}

\* StopBot: the stop command is published on the session's command channel
\* (advisory), then the driver's stop is called (authoritative).  A stop the driver
\* does not confirm leaves the status as it is.
StopBot(c) ==
    /\ c \in DOMAIN sessions
    /\ sessions[c].status \in ActiveStatus
    /\ ~sessions[c].stop_acked
    /\ LET s == sessions[c]
           confirmed == stop_bot_container(s.backend_job_id)
       IN  /\ sessions' = [sessions EXCEPT ![c] =
                             [@ EXCEPT !.stop_acked = TRUE,
                                       !.status = IF confirmed THEN "stopped" ELSE @]]
           /\ leases' = IF confirmed THEN Release(leases, s.user_id, {c}) ELSE leases
    /\ UNCHANGED <<calls, jobs, planLimit>>
    /\ UNCHANGED recon
    /\ UNCHANGED adminVars

\* Channels on which a stop command has been published.
StopChannels ==
    {get_bot_command_channel(sessions[c].connection_id) :
        c \in {d \in DOMAIN sessions : sessions[d].stop_acked}}

\* --------------------------------------------------------------- Reconciler
\* One pass for one user, at time now, over the snapshots the driver listed,
\* diffed by connection_id.  A session found in both lists is verified at now
\* and runs; one the driver did not list ends.
ReconcileSessions(S, u, snaps, now) ==
    LET listed == {b.connection_id : b \in snaps}
    IN  [c \in DOMAIN S |->
            IF S[c].user_id # u \/ S[c].status \notin ActiveStatus THEN S[c]
            ELSE IF S[c].connection_id \in listed
                 THEN [S[c] EXCEPT !.status = "running", !.last_verified_at = now]
                 ELSE [S[c] EXCEPT !.status = IF @ = "running" THEN "stopped" ELSE "failed"]]

ReconcileLeases(S, L, u, snaps, now) ==
    LET T == ReconcileSessions(S, u, snaps, now)
    IN  Release(L, u, {c \in DOMAIN S : S[c].status \in ActiveStatus
                                         /\ T[c].status \in TerminalStatus})

\* The clock, counted in checks: the time of a pass over the store S is later
\* than the time of every check on record.
Now(S) ==
    LET times == {S[c].last_verified_at : c \in DOMAIN S} \cup {0}
    IN  1 + CHOOSE t \in times : \A x \in times : x <= t

\* No pass in progress.
IdleRecon == [pc |-> "idle", user |-> 0, todo |-> << >>, running_bots |-> {}, passed_over |-> {}]

\* The end of a pass: the snapshots the driver returned are diffed against the
\* session records as they are now.
ReconcileApply(u, snaps) ==
    /\ sessions' = ReconcileSessions(sessions, u, snaps, Now(sessions))
    /\ leases' = ReconcileLeases(sessions, leases, u, snaps, Now(sessions))
    /\ recon' = IdleRecon

\* A pass for user u begins: get_running_bots_status sends the list GET (line
\* 156).  A failed list query makes the driver return [] (lines 206-214), and
\* so does a list without a running job; otherwise the driver goes on to the
\* detail GET of the first listed job and the pass waits for its answer.
\* The pass's time is Now(sessions); passes are begun up to time MaxTime.
ReconcileList(u, list_q) ==
    /\ recon.pc = "idle"
    /\ ActiveSessions(sessions, u) # {}
    /\ Now(sessions) <= MaxTime
    /\ IF list_q # "ok" \/ ListedRunning(u) = << >>
       THEN ReconcileApply(u, {})
       ELSE /\ recon' = [pc |-> "detail", user |-> u, todo |-> ListedRunning(u),
                         running_bots |-> {}, passed_over |-> {}]
            /\ UNCHANGED <<sessions, leases>>
    /\ UNCHANGED <<calls, jobs, planLimit>>
    /\ UNCHANGED adminVars

\* The answer to the detail GET of the job at the head of the list (line 173).
\* A transport error ends the call with [] (lines 209-214); a job whose answer
\* is not 200 is passed over (line 175); after the last job the driver returns
\* what it collected and the pass ends.
PassedOver(q) == IF q = "non200" THEN {Head(recon.todo)} ELSE {}

ReconcileDetail(q) ==
    /\ recon.pc = "detail"
    /\ LET u == recon.user
           found == recon.running_bots \cup DetailBots(Head(recon.todo), u, q)
       IN  IF q = "transport_error" THEN ReconcileApply(u, {})
           ELSE IF Tail(recon.todo) = << >> THEN ReconcileApply(u, found)
           ELSE /\ recon' = [recon EXCEPT !.todo = Tail(@), !.running_bots = found,
                                           !.passed_over = @ \cup PassedOver(q)]
                /\ UNCHANGED <<sessions, leases>>
    /\ UNCHANGED <<calls, jobs, planLimit>>
    /\ UNCHANGED adminVars

\* ------------------------------------------------------------ Nomad cluster
SetJob(j, status, allocs) ==
    jobs' = [jobs EXCEPT ![j] = [@ EXCEPT !.Status = status, !.Allocs = allocs]]

\* The allocation is placed and the worker process starts.
AllocStart(j) ==
    /\ jobs[j].Status = "running" /\ jobs[j].Allocs = {"pending"}
    /\ SetJob(j, "running", {"running"})
    /\ UNCHANGED <<calls, sessions, leases, planLimit>>
    /\ UNCHANGED recon
    /\ UNCHANGED adminVars

\* The worker process crashes and Nomad marks the job dead.
AllocFail(j) ==
    /\ jobs[j].Status = "running" /\ jobs[j].Allocs = {"running"}
    /\ SetJob(j, "dead", {"failed"})
    /\ UNCHANGED <<calls, sessions, leases, planLimit>>
    /\ UNCHANGED recon
    /\ UNCHANGED adminVars

\* A worker that received the stop command on its channel exits.  Delivery is
\* at most once and not guaranteed: the step may never happen.
WorkerStop(j) ==
    /\ JobLive(j)
    /\ get_bot_command_channel(jobs[j].Meta.connection_id) \in StopChannels
    /\ SetJob(j, "dead", {"complete"})
    /\ UNCHANGED <<calls, sessions, leases, planLimit>>
    /\ UNCHANGED recon
    /\ UNCHANGED adminVars

\* ------------------------------------------------- admin API: users table
\* Three handlers create users: POST /admin/users (main.py create_user), the
\* CRUD route (core.py create_user over crud_user.create_user) and the Stripe
\* webhook (main.py update_user_from_subscription).  Every request has a
\* database session of its own (get_db), and a handler gives way to the other
\* requests at each await: the SELECT, the commit, the refresh.
Creates == 1..MaxCreates
CreatePaths == {"admin", "core", "webhook"}
Emails == {"ann@example.com", "bob@example.com"}

\* Python's None where a user id is expected.
NoUser == 0

\* The ids that have a row.  A deleted row keeps its id out of use.
LiveUsers(table) == {i \in DOMAIN table : table[i].live}

\* select(User).where(User.email == email) ... scalars().first(): the id of the
\* first row with the email, or None.
get_user_by_email(table, email) ==
    LET hits == {i \in LiveUsers(table) : table[i].email = email}
    IN  IF hits = {} THEN NoUser
        ELSE table[CHOOSE i \in hits : \A k \in hits : i <= k].id

\* crud_user.get_user, db.get(User, id) and select(User).where(User.id == id):
\* the id when there is a row, or None.
get_user(table, user_id) == IF user_id \in LiveUsers(table) THEN user_id ELSE NoUser

\* A dict without keys, and the None of a JSON field.
EmptyDict == [k \in {} |-> ""]
NoneData == [is_none |-> TRUE]

\* dict.update: the keys of d2 replace or extend those of d1.
DictUpdate(d1, d2) == d2 @@ d1

\* `if user.data is None: user.data = {}`
DataOrEmpty(data) == IF data = NoneData THEN EmptyDict ELSE data

\* email.split('@')[0]
LocalPart(email) ==
    CASE email = "ann@example.com" -> "ann"
      [] email = "bob@example.com" -> "bob"
      [] email = "test@example.com" -> "test"
      [] OTHER -> "cus_1"

\* The name a path gives the user it creates: the webhook the local part of
\* the email (main.py 200), the routes the name of the request body, which the
\* requests of the model leave out.
NameFor(path, email) == IF path = "webhook" THEN LocalPart(email) ELSE None

\* db.add(User(email=...)) and commit: the row gets the next id.  A table whose
\* email column is unique rejects the row (IntegrityError) and stays as it is.
\* max_concurrent_bots is 1 when the row is created (main.py 201).
CommitRejected(table, unique, email) ==
    unique /\ \E i \in LiveUsers(table) : table[i].email = email
CommitUser(table, unique, email, name) ==
    IF CommitRejected(table, unique, email) THEN table
    ELSE Append(table, [id |-> Len(table) + 1, email |-> email, name |-> name,
                        max_concurrent_bots |-> 1, data |-> EmptyDict, live |-> TRUE])

\* The UPDATE a commit issues for an object read earlier: the columns in
\* writes are set, the others are left as they are in the table now.
ApplyWrites(row, writes) ==
    [f \in DOMAIN row |-> IF f \in DOMAIN writes THEN writes[f] ELSE row[f]]

\* Response status when the SELECT found the user: the admin route answers 200
\* with the user, the CRUD route turns the ValueError into 409, the webhook
\* goes on with the user found.
StatusExisting(path) == IF path = "core" THEN 409 ELSE 200
\* Response status after the row was committed and read back.
StatusCreated(path) == IF path = "webhook" THEN 200 ELSE 201
\* Response status when the commit or the refresh raised: unhandled in the
\* admin route (500), caught as Exception in the CRUD route (500), turned into
\* 400 by the webhook (main.py 377-382).
StatusCommitError(path) == IF path = "webhook" THEN 400 ELSE 500

\* ------------------------------------------------ admin API: Stripe webhook
\* HMAC-SHA256 as a keyed digest: equal only for equal key and message.
HmacSha256(secret, msg) == "hmac[" \o secret \o "|" \o msg \o "]"

\* A stripe-signature header: absent, or its comma-separated k=v parts.
NoHeader == [present |-> FALSE, parts |-> << >>]
Header(parts) == [present |-> TRUE, parts |-> parts]
Part(k, v) == [k |-> k, v |-> v]

\* The last value of the parts with key k, None when there is none (the loop of
\* lines 115-119 overwrites).
RECURSIVE LastPart(_, _)
LastPart(parts, k) ==
    IF parts = << >> THEN None
    ELSE IF parts[Len(parts)].k = k THEN parts[Len(parts)].v
    ELSE LastPart(SubSeq(parts, 1, Len(parts) - 1), k)

\* Variant that takes a header without a timestamp as signed over the payload alone.
verify_stripe_signature_no_timestamp(payload, signature, secret) ==
    LET timestamp == LastPart(signature.parts, "t")
        received_signature == LastPart(signature.parts, "v1")
    IN  IF Falsy(received_signature) THEN FALSE
        ELSE IF Falsy(timestamp) THEN TRUE
        ELSE received_signature = HmacSha256(secret, timestamp \o "." \o payload)

\* verify_stripe_signature (main.py 104-148).
verify_stripe_signature(payload, signature, secret) ==
    LET timestamp == LastPart(signature.parts, "t")
        received_signature == LastPart(signature.parts, "v1")
    IN  IF Falsy(timestamp) \/ Falsy(received_signature) THEN FALSE
        ELSE received_signature = HmacSha256(secret, timestamp \o "." \o payload)

\* A subscription object.  The emails are None where the object has none; the
\* customer is an id, or None.
Subscription(customer, details_email, meta_email, status, cancel, items) ==
    [id |-> "sub_1", customer |-> customer,
     customer_details |-> [email |-> details_email],
     metadata |-> [userEmail |-> meta_email],
     status |-> status, cancel_at_period_end |-> cancel,
     current_period_end |-> "1767225600",
     items |-> [data |-> items]]

\* The customer email of lines 160-193: customer_details.email, else
\* metadata.userEmail, else the test mapping or <customer id>@stripe.customer.
CustomerEmail(sub) ==
    LET e1 == sub.customer_details.email
        e2 == IF Falsy(e1) THEN sub.metadata.userEmail ELSE e1
    IN  IF ~Falsy(e2) THEN e2
        ELSE IF sub.customer \in {"cus_test_bot_limit", "cus_test_webhook"}
             THEN "test@example.com"
             ELSE sub.customer \o "@stripe.customer"

\* items[0].get('quantity', 0) if items else 0
FirstQuantity(items) ==
    IF items = << >> THEN 0
    ELSE IF "quantity" \in DOMAIN items[1] THEN items[1].quantity ELSE 0

EndedStatuses == {"canceled", "cancelled", "incomplete_expired", "past_due", "unpaid"}

\* bot_count of lines 217-246.
bot_count(sub) ==
    IF sub.status \in {"active", "trialing"} THEN FirstQuantity(sub.items.data)
    ELSE IF sub.status \in EndedStatuses THEN 0
    ELSE FirstQuantity(sub.items.data)

\* status as stored (lines 226-231).
stored_status(sub) ==
    IF sub.status \in {"active", "trialing"} /\ sub.cancel_at_period_end
    THEN "scheduled_to_cancel" ELSE sub.status

\* The keys written into user.data (lines 252-276).  utcnow() is a fixed mark.
SubscriptionData(sub) ==
    LET scheduled == sub.cancel_at_period_end /\ sub.status \in {"active", "trialing"}
    IN  [stripe_subscription_id |-> sub.id,
         subscription_status |-> stored_status(sub),
         max_concurrent_bots |-> bot_count(sub),
         updated_by_webhook |-> "utcnow",
         subscription_scheduled_to_cancel |-> scheduled,
         subscription_cancel_at_period_end |-> scheduled,
         subscription_current_period_end |->
             IF scheduled THEN sub.current_period_end ELSE None,
         subscription_cancellation_date |->
             IF scheduled THEN "iso:" \o sub.current_period_end ELSE None]

\* update_user_from_subscription from the user it found or created to its
\* commit (main.py 211-279): the columns the commit writes.  user.data is
\* updated in place from the value read and flagged as modified, so the whole
\* column is written; max_concurrent_bots is written when the value assigned
\* differs from the value read.
update_user_from_subscription(row, sub) ==
    LET data == DictUpdate(DataOrEmpty(row.data), SubscriptionData(sub))
    IN  IF bot_count(sub) # row.max_concurrent_bots
        THEN [data |-> data, max_concurrent_bots |-> bot_count(sub)]
        ELSE [data |-> data]

SubscriptionEvents ==
    {"customer.subscription.created", "customer.subscription.updated",
     "customer.subscription.deleted"}
EventTypes == SubscriptionEvents \cup {"checkout.session.completed", "invoice.paid"}

\* An event as posted: its raw body stands for the bytes signed.
Event(raw, type, sub) == [raw |-> raw, type |-> type, object |-> sub]

\* handle_stripe_webhook up to the call of update_user_from_subscription
\* (main.py 300-361): the status it answers with at once, 0 when it goes on to
\* the user of the subscription.  An event of another type, and a subscription
\* without a customer (main.py 155-157), are answered 200 with nothing done.
handle_stripe_webhook(secret, signature, event) ==
    IF Falsy(secret) THEN 500
    ELSE IF ~signature.present \/ signature.parts = << >>
         THEN 400
    ELSE IF ~verify_stripe_signature(event.raw, signature, secret)
         THEN 400
    ELSE IF event.type \notin SubscriptionEvents THEN 200
    ELSE IF Falsy(event.object.customer) THEN 200
    ELSE 0

\* The requests of the model.  Signed events of type updated carry every
\* combination of status, cancellation flag and items for one customer, and
\* every source of the email; the other event types and the other headers
\* carry one subscription.
WebhookSecret == "whsec_1"
Statuses == EndedStatuses \cup {"active", "trialing", "incomplete"}
ItemLists == {<< >>, <<[quantity |-> 2], [quantity |-> 0]>>, <<[price |-> "price_1"]>>}
Ann == "ann@example.com"
SampleSub == Subscription("cus_1", Ann, None, "active", FALSE, <<[quantity |-> 2], [quantity |-> 0]>>)
Subscriptions ==
    {Subscription("cus_1", Ann, None, st, ce, it) :
        st \in Statuses, ce \in BOOLEAN, it \in ItemLists}
    \cup {Subscription(cu, de, me, "active", FALSE, <<[quantity |-> 2], [quantity |-> 0]>>) :
            cu \in {None, "cus_1", "cus_test_webhook"}, de \in {None, Ann},
            me \in {None, "bob@example.com"}}

GoodHeader(raw) == Header(<<Part("t", "100"), Part("v1", HmacSha256(WebhookSecret, "100." \o raw))>>)
BadHeaders(raw) ==
    {NoHeader, Header(<< >>),
     Header(<<Part("v1", HmacSha256(WebhookSecret, "100." \o raw))>>),
     Header(<<Part("t", "100"), Part("v0", HmacSha256(WebhookSecret, "100." \o raw))>>),
     Header(<<Part("t", "100"), Part("v1", HmacSha256("whsec_other", "100." \o raw))>>),
     Header(<<Part("t", "100"), Part("v1", HmacSha256(WebhookSecret, "100.other"))>>),
     Header(<<Part("v1", HmacSha256(WebhookSecret, raw))>>)}
TwoSignatures(raw) ==
    Header(<<Part("t", "100"), Part("v1", "stale"),
             Part("v1", HmacSha256(WebhookSecret, "100." \o raw))>>)

WebhookRequest(signature, event) == [signature |-> signature, event |-> event]
WebhookRequests ==
    {WebhookRequest(GoodHeader("evt"), Event("evt", "customer.subscription.updated", sub)) :
        sub \in Subscriptions}
    \cup {WebhookRequest(GoodHeader("evt"), Event("evt", ty, SampleSub)) : ty \in EventTypes}
    \cup {WebhookRequest(h, Event("evt", "customer.subscription.created", SampleSub)) :
            h \in BadHeaders("evt") \cup {TwoSignatures("evt")}}

\* --------------------------------------------------- admin API: /admin router
\* Values of the X-Admin-API-Key header (None: no header) and of the
\* ADMIN_API_TOKEN environment variable (None: unset).
AdminKeys == {None, "", "secret", "wrong"}
AdminTokenValues == {None, "", "secret"}

\* Variant that lets a request without the header through.
verify_admin_token_header_optional(admin_api_key, token) ==
    IF Falsy(token) THEN 500
    ELSE IF ~Falsy(admin_api_key) /\ admin_api_key # token THEN 403
    ELSE 0

\* verify_admin_token (main.py 52-68): the status of the HTTPException it
\* raises, 0 when it raises none.
verify_admin_token(admin_api_key, token) ==
    IF Falsy(token) THEN 500
    ELSE IF Falsy(admin_api_key) \/ admin_api_key # token THEN 403
    ELSE 0

\* ------------------------------------------------- admin API: create user
\* No webhook request: the requests of the routes are none.
NoSub == Subscription(None, None, None, "none", FALSE, << >>)
NoWebhookRequest == WebhookRequest(NoHeader, Event("", "none", NoSub))

\* A signed customer.subscription.updated for an email: active, two bots.
SignedUpdate(email) ==
    WebhookRequest(GoodHeader("evt"),
                   Event("evt", "customer.subscription.updated",
                         Subscription("cus_1", email, None, "active", FALSE,
                                      <<[quantity |-> 2], [quantity |-> 0]>>)))

\* The webhook requests of the create-user scenario.
SignedUpdates == {SignedUpdate(email) : email \in Emails}

IdleCreate == [pc |-> "idle", path |-> "none", key |-> None, email |-> "",
               req |-> NoWebhookRequest, writes |-> EmptyDict, status |-> 0,
               user |-> NoUser, added |-> FALSE]

\* A request answered before its handler reads the table.
Refused(r, path, key, status) ==
    creates' = [creates EXCEPT ![r] =
        [IdleCreate EXCEPT !.pc = "done", !.path = path, !.key = key, !.status = status]]

\* The SELECT by email that each of the three handlers begins with (main.py
\* 429, crud_user.py 22, main.py 196) and what the handler does with its
\* answer up to the next await: the routes answer at once for a user found,
\* the webhook goes on to update the user found; without a user each goes on
\* to add one.
SelectUser(r, path, key, email, req) ==
    LET existing == get_user_by_email(users, email)
        sub == req.event.object
        request == [IdleCreate EXCEPT !.path = path, !.key = key, !.email = email,
                                      !.req = req]
    IN  creates' = [creates EXCEPT ![r] =
            IF existing = NoUser THEN [request EXCEPT !.pc = "inserting"]
            ELSE IF path = "webhook"
                 THEN [request EXCEPT !.pc = "updating", !.user = existing,
                          !.writes = update_user_from_subscription(users[existing], sub)]
            ELSE [request EXCEPT !.pc = "done", !.status = StatusExisting(path),
                                 !.user = existing]]

\* The next request slot in order.
NextCreate(r) == creates[r].pc = "idle" /\ \A q \in Creates : q < r => creates[q].pc # "idle"

\* POST /users of the CRUD routes (core.py 24-39 over crud_user.create_user,
\* crud_user.py 20-32), up to the answer to its SELECT.  The route takes no
\* admin key.
CoreCreateUser(r, email) ==
    /\ NextCreate(r)
    /\ SelectUser(r, "core", None, email, NoWebhookRequest)
    /\ UNCHANGED <<users, emailUnique>>
    /\ UNCHANGED apiVars
    /\ UNCHANGED billingVars
    /\ UNCHANGED orchVars

\* POST /admin/users (main.py 414-447) with its dependency verify_admin_token,
\* up to the answer to its SELECT.
AdminCreateUser(r, key, email) ==
    /\ NextCreate(r)
    /\ LET denied == verify_admin_token(key, adminEnv.ADMIN_API_TOKEN)
       IN  IF denied # 0 THEN Refused(r, "admin", key, denied)
           ELSE SelectUser(r, "admin", key, email, NoWebhookRequest)
    /\ UNCHANGED <<users, emailUnique>>
    /\ UNCHANGED apiVars
    /\ UNCHANGED billingVars
    /\ UNCHANGED orchVars

\* POST /webhook/stripe (main.py 297-382), up to the answer to the SELECT of
\* update_user_from_subscription.
WebhookReceive(r, req) ==
    /\ NextCreate(r)
    /\ LET gate == handle_stripe_webhook(adminEnv.STRIPE_WEBHOOK_SECRET, req.signature, req.event)
       IN  IF gate # 0 THEN Refused(r, "webhook", None, gate)
           ELSE SelectUser(r, "webhook", None, CustomerEmail(req.event.object), req)
    /\ UNCHANGED <<users, emailUnique>>
    /\ UNCHANGED apiVars
    /\ UNCHANGED billingVars
    /\ UNCHANGED orchVars

\* db.add(user) and the commit (main.py 443-444, crud_user.py 28-29, main.py
\* 206-207).  A commit the table rejects ends the request.
CreateCommit(r) ==
    /\ creates[r].pc = "inserting"
    /\ LET email == creates[r].email
           path == creates[r].path
       IN  IF CommitRejected(users, emailUnique, email)
           THEN /\ creates' = [creates EXCEPT ![r] =
                      [@ EXCEPT !.pc = "done", !.status = StatusCommitError(path)]]
                /\ UNCHANGED users
           ELSE /\ users' = CommitUser(users, emailUnique, email, NameFor(path, email))
                /\ creates' = [creates EXCEPT ![r] =
                      [@ EXCEPT !.pc = "refreshing", !.user = Len(users) + 1, !.added = TRUE]]
    /\ UNCHANGED emailUnique
    /\ UNCHANGED apiVars
    /\ UNCHANGED billingVars
    /\ UNCHANGED orchVars

\* db.refresh(user) after the insert (main.py 445, crud_user.py 30, main.py
\* 208): it raises when the row has been deleted since.  The routes answer
\* 201; the webhook goes on to update the user.
CreateRefresh(r) ==
    /\ creates[r].pc = "refreshing"
    /\ LET path == creates[r].path
           found == get_user(users, creates[r].user)
       IN  creates' = [creates EXCEPT ![r] =
              IF found = NoUser
              THEN [@ EXCEPT !.pc = "done", !.status = StatusCommitError(path)]
              ELSE IF path = "webhook"
                   THEN [@ EXCEPT !.pc = "updating",
                            !.writes = update_user_from_subscription(users[found], creates[r].req.event.object)]
              ELSE [@ EXCEPT !.pc = "done", !.status = StatusCreated(path)]]
    /\ UNCHANGED <<users, emailUnique>>
    /\ UNCHANGED apiVars
    /\ UNCHANGED billingVars
    /\ UNCHANGED orchVars

\* The commit of update_user_from_subscription (main.py 282): the UPDATE of
\* the user's row.  It raises (StaleDataError) when the row has been deleted.
WebhookCommit(r) ==
    /\ creates[r].pc = "updating"
    /\ LET found == get_user(users, creates[r].user)
       IN  IF found = NoUser
           THEN /\ creates' = [creates EXCEPT ![r] =
                      [@ EXCEPT !.pc = "done", !.status = StatusCommitError("webhook"),
                                !.writes = EmptyDict]]
                /\ UNCHANGED users
           ELSE /\ users' = [users EXCEPT ![found] = ApplyWrites(@, creates[r].writes)]
                /\ creates' = [creates EXCEPT ![r] =
                      [@ EXCEPT !.pc = "reloading", !.writes = EmptyDict]]
    /\ UNCHANGED emailUnique
    /\ UNCHANGED apiVars
    /\ UNCHANGED billingVars
    /\ UNCHANGED orchVars

\* db.refresh(user) after the update (main.py 283), and the answer.
WebhookRefresh(r) ==
    /\ creates[r].pc = "reloading"
    /\ creates' = [creates EXCEPT ![r] =
          [@ EXCEPT !.pc = "done", !.writes = EmptyDict,
                    !.status = IF get_user(users, creates[r].user) = NoUser
                               THEN StatusCommitError("webhook")
                               ELSE StatusCreated("webhook")]]
    /\ UNCHANGED <<users, emailUnique>>
    /\ UNCHANGED apiVars
    /\ UNCHANGED billingVars
    /\ UNCHANGED orchVars

\* ------------------------------------------- admin API: users and tokens
\* The requests that read and change one user or one token.  A slot holds a
\* request from its arrival to its answer: the request, the object its first
\* query read, and the columns its commit will write.  A slot whose request
\* has been answered takes the next request.
Handlers == 1..MaxHandlers
IdleHandler == [pc |-> "idle", op |-> "none", key |-> None, arg |-> 0, body |-> EmptyDict,
                obj |-> 0, writes |-> EmptyDict, status |-> 0]
Free(h) == handlers[h].pc \in {"idle", "done"}
\* A request takes the first slot that is free.
FirstFree(h) == Free(h) /\ \A g \in Handlers : g < h => ~Free(g)

HandlerRequest(op, key, arg, body) ==
    [IdleHandler EXCEPT !.op = op, !.key = key, !.arg = arg, !.body = body]
\* The request is answered.
Answer(h, request, status) ==
    handlers' = [handlers EXCEPT ![h] =
                    [request EXCEPT !.pc = "done", !.status = status, !.obj = 0,
                                    !.writes = EmptyDict]]
\* The request is turned away by verify_admin_token, before its handler.
Denied(h, op, key, status) == Answer(h, HandlerRequest(op, key, 0, EmptyDict), status)
\* The request waits at an await for the database.
Await(h, request, pc, obj, writes) ==
    handlers' = [handlers EXCEPT ![h] =
                    [request EXCEPT !.pc = pc, !.obj = obj, !.writes = writes]]
\* The slot's request is at the await pc of handler op.
At(h, op, pc) == handlers[h].op = op /\ handlers[h].pc = pc

\* What a commit or a DELETE answers where the source at hand does not decide
\* it: a DELETE that matches no row any more (SQLAlchemy warns or raises
\* StaleDataError), and the delete of a user that tokens or a plan assignment
\* still refer to (the cascade rules are in shared_models/models.py).
Undecided == {204, 500}

\* GET /admin/users/{user_id} (main.py 478-498).
AdminGetUser(h, key, user_id) ==
    /\ FirstFree(h)
    /\ LET request == HandlerRequest("get_user", key, user_id, EmptyDict)
           denied == verify_admin_token(key, adminEnv.ADMIN_API_TOKEN)
       IN  IF denied # 0 THEN Denied(h, request.op, key, denied)
           ELSE IF get_user(users, user_id) = NoUser THEN Answer(h, request, 404)
           ELSE Answer(h, request, 200)
    /\ UNCHANGED <<tokens, adminEnv>>
    /\ UNCHANGED createVars
    /\ UNCHANGED billingVars
    /\ UNCHANGED orchVars

\* Request bodies of PATCH /admin/users/{user_id}: only the fields that are set
\* (exclude_unset).  A data of null is NoneData, a name of null is None.
PatchData == [webhook_url |-> "https://hook.example/1"]
PatchBodies ==
    {[email |-> e, name |-> "Renamed", max_concurrent_bots |-> 2, data |-> PatchData] :
        e \in Emails}
    \cup {[name |-> None, max_concurrent_bots |-> 2], [name |-> "Renamed", max_concurrent_bots |-> 1],
          [data |-> PatchData], [data |-> NoneData], EmptyDict}

\* The fields of a PATCH body that the loop of main.py 548-552 goes through.
PatchFields == {"name", "max_concurrent_bots"}

\* Variant that writes the email of the body like any other field.
update_user_sets_email(row, body) ==
    [status |-> 0,
     writes |-> [f \in {g \in DOMAIN body :
                          \/ g = "data" /\ body[g] # NoneData
                          \/ g \in PatchFields \cup {"email"} /\ body[g] # row[g]} |-> body[f]]]

\* update_user from the user it read to its commit (main.py 516-556): 400 for
\* an email other than the one read; otherwise data is replaced when given and
\* not null, and each other field given is set when it differs from the value
\* read.  writes are the columns the commit will write.
update_user(row, body) ==
    IF "email" \in DOMAIN body /\ body.email # row.email
    THEN [status |-> 400, writes |-> EmptyDict]
    ELSE [status |-> 0,
          writes |-> [f \in {g \in DOMAIN body :
                               \/ g = "data" /\ body[g] # NoneData
                               \/ g \in PatchFields /\ body[g] # row[g]} |-> body[f]]]

\* PATCH /admin/users/{user_id}, up to the answer to its SELECT (main.py
\* 504-556).  A request that changes nothing is answered without a commit.
UpdateUserSelect(h, key, user_id, body) ==
    /\ FirstFree(h)
    /\ LET request == HandlerRequest("update_user", key, user_id, body)
           denied == verify_admin_token(key, adminEnv.ADMIN_API_TOKEN)
           found == get_user(users, user_id)
       IN  IF denied # 0 THEN Denied(h, request.op, key, denied)
           ELSE IF found = NoUser THEN Answer(h, request, 404)
           ELSE LET update == update_user(users[found], body)
                IN  IF update.status # 0 THEN Answer(h, request, update.status)
                    ELSE IF update.writes = EmptyDict THEN Answer(h, request, 200)
                    ELSE Await(h, request, "commit", found, update.writes)
    /\ UNCHANGED <<tokens, adminEnv>>
    /\ UNCHANGED createVars
    /\ UNCHANGED billingVars
    /\ UNCHANGED orchVars

\* The commit of an object read earlier and changed (main.py 559, 408): the
\* UPDATE raises when the row has been deleted since; update_user answers 500
\* (main.py 562-565), set_user_webhook lets it pass, 500 as well.
CommitWrites(h) ==
    LET found == get_user(users, handlers[h].obj)
    IN  IF found = NoUser
        THEN /\ Answer(h, handlers[h], 500)
             /\ UNCHANGED users
        ELSE /\ users' = [users EXCEPT ![found] = ApplyWrites(@, handlers[h].writes)]
             /\ Await(h, handlers[h], "refresh", found, EmptyDict)

\* db.refresh of the user after the commit (main.py 560, 409): it raises when
\* the row has been deleted since.
RefreshUser(h) ==
    IF get_user(users, handlers[h].obj) = NoUser THEN Answer(h, handlers[h], 500)
    ELSE Answer(h, handlers[h], 200)

UpdateUserCommit(h) ==
    /\ At(h, "update_user", "commit")
    /\ CommitWrites(h)
    /\ UNCHANGED <<creates, emailUnique, tokens, adminEnv>>
    /\ UNCHANGED billingVars
    /\ UNCHANGED orchVars

UpdateUserRefresh(h) ==
    /\ At(h, "update_user", "refresh")
    /\ RefreshUser(h)
    /\ UNCHANGED <<tokens, adminEnv>>
    /\ UNCHANGED createVars
    /\ UNCHANGED billingVars
    /\ UNCHANGED orchVars

\* The ids that have a row in api_tokens.
LiveTokens(T) == {i \in DOMAIN T : T[i].live}
TokensOf(T, user_id) == {i \in LiveTokens(T) : T[i].user_id = user_id}

\* db.get(APIToken, id): the id when there is a row, or None.
NoToken == 0
get_token(T, token_id) == IF token_id \in LiveTokens(T) THEN token_id ELSE NoToken

\* get_token_by_value (crud_token.py 18-21) and the SELECT of get_current_user.
get_token_by_value(T, token_value) ==
    IF \E i \in LiveTokens(T) : T[i].token = token_value
    THEN CHOOSE i \in LiveTokens(T) : T[i].token = token_value
    ELSE NoToken

\* generate_secure_token(): a random token; the n-th value there is.
generate_secure_token(n) == "tok-" \o ToString(n)

\* create_token_for_user requests, of either route, that have read their user
\* and not committed.
TokensUnderway ==
    {h \in Handlers : \/ At(h, "create_token_for_user", "commit")
                      \/ At(h, "core_create_token_for_user", "unique")
                      \/ At(h, "core_create_token_for_user", "commit")}

\* The token values that a row has or had, and those that a request has
\* generated and not yet inserted.
TokensDrawn ==
    {tokens[i].token : i \in DOMAIN tokens}
    \cup {handlers[h].writes.token :
            h \in {g \in Handlers : At(g, "core_create_token_for_user", "commit")}}

\* A value of generate_secure_token() that has not been generated before.
FreshToken ==
    generate_secure_token(CHOOSE n \in 1..(MaxTokens + 1) :
        /\ generate_secure_token(n) \notin TokensDrawn
        /\ \A m \in 1..(n - 1) : generate_secure_token(m) \in TokensDrawn)

\* POST /admin/users/{user_id}/tokens, up to the answer to db.get (main.py 575-578).
CreateTokenSelect(h, key, user_id) ==
    /\ FirstFree(h)
    /\ Len(tokens) + Cardinality(TokensUnderway) < MaxTokens
    /\ LET request == HandlerRequest("create_token_for_user", key, user_id, EmptyDict)
           denied == verify_admin_token(key, adminEnv.ADMIN_API_TOKEN)
       IN  IF denied # 0 THEN Denied(h, request.op, key, denied)
           ELSE IF get_user(users, user_id) = NoUser THEN Answer(h, request, 404)
           ELSE Await(h, request, "commit", user_id, EmptyDict)
    /\ UNCHANGED <<tokens, adminEnv>>
    /\ UNCHANGED createVars
    /\ UNCHANGED billingVars
    /\ UNCHANGED orchVars

\* db.add(db_token) and the commit (main.py 580-584).  The INSERT for a user
\* deleted since fails on the foreign key and the request is answered 500.
CreateTokenCommit(h) ==
    /\ At(h, "create_token_for_user", "commit")
    /\ LET user_id == handlers[h].obj
           token_id == Len(tokens) + 1
       IN  IF get_user(users, user_id) = NoUser
           THEN /\ Answer(h, handlers[h], 500)
                /\ UNCHANGED tokens
           ELSE /\ tokens' = Append(tokens, [id |-> token_id, user_id |-> user_id,
                                             token |-> FreshToken,
                                             live |-> TRUE])
                /\ Await(h, handlers[h], "refresh", token_id, EmptyDict)
    /\ UNCHANGED adminEnv
    /\ UNCHANGED createVars
    /\ UNCHANGED billingVars
    /\ UNCHANGED orchVars

\* db.refresh(db_token) (main.py 585): it raises when the token has been
\* deleted since.
CreateTokenRefresh(h) ==
    /\ At(h, "create_token_for_user", "refresh")
    /\ IF get_token(tokens, handlers[h].obj) = NoToken THEN Answer(h, handlers[h], 500)
       ELSE Answer(h, handlers[h], 201)
    /\ UNCHANGED <<tokens, adminEnv>>
    /\ UNCHANGED createVars
    /\ UNCHANGED billingVars
    /\ UNCHANGED orchVars

\* POST /users/{user_id}/tokens, up to the answer to get_user (core.py 81-84,
\* crud_user.py get_user).  The route takes no admin key.
CoreCreateTokenSelect(h, user_id) ==
    /\ FirstFree(h)
    /\ Len(tokens) + Cardinality(TokensUnderway) < MaxTokens
    /\ LET request == HandlerRequest("core_create_token_for_user", None, user_id, EmptyDict)
       IN  IF get_user(users, user_id) = NoUser THEN Answer(h, request, 404)
           ELSE Await(h, request, "unique", user_id, EmptyDict)
    /\ UNCHANGED <<tokens, adminEnv>>
    /\ UNCHANGED createVars
    /\ UNCHANGED billingVars
    /\ UNCHANGED orchVars

\* The values generate_secure_token() can give a request: one never generated
\* before, or the value of a token there is.
GeneratedTokens == {FreshToken} \cup {tokens[i].token : i \in LiveTokens(tokens)}

\* One turn of the loop of crud_token.py 29-32: token_value has been
\* generated, and get_token_by_value answers.  A value that a token has is
\* given up for another one, and the SELECT is made again.
CoreCreateTokenUnique(h, token_value) ==
    /\ At(h, "core_create_token_for_user", "unique")
    /\ token_value \in GeneratedTokens
    /\ IF get_token_by_value(tokens, token_value) # NoToken
       THEN Await(h, handlers[h], "unique", handlers[h].obj, EmptyDict)
       ELSE Await(h, handlers[h], "commit", handlers[h].obj, [token |-> token_value])
    /\ UNCHANGED <<tokens, adminEnv>>
    /\ UNCHANGED createVars
    /\ UNCHANGED billingVars
    /\ UNCHANGED orchVars

\* db.add(db_token) and the commit (crud_token.py 34-36).  The INSERT for a
\* user deleted since fails on the foreign key, and the route answers 500
\* (core.py 89-91).
CoreCreateTokenCommit(h) ==
    /\ At(h, "core_create_token_for_user", "commit")
    /\ LET user_id == handlers[h].obj
           token_id == Len(tokens) + 1
       IN  IF get_user(users, user_id) = NoUser
           THEN /\ Answer(h, handlers[h], 500)
                /\ UNCHANGED tokens
           ELSE /\ tokens' = Append(tokens, [id |-> token_id, user_id |-> user_id,
                                             token |-> handlers[h].writes.token,
                                             live |-> TRUE])
                /\ Await(h, handlers[h], "refresh", token_id, EmptyDict)
    /\ UNCHANGED adminEnv
    /\ UNCHANGED createVars
    /\ UNCHANGED billingVars
    /\ UNCHANGED orchVars

\* db.refresh(db_token) (crud_token.py 37): it raises when the token has been
\* deleted since, and the route answers 500 (core.py 89-91).
CoreCreateTokenRefresh(h) ==
    /\ At(h, "core_create_token_for_user", "refresh")
    /\ IF get_token(tokens, handlers[h].obj) = NoToken THEN Answer(h, handlers[h], 500)
       ELSE Answer(h, handlers[h], 201)
    /\ UNCHANGED <<tokens, adminEnv>>
    /\ UNCHANGED createVars
    /\ UNCHANGED billingVars
    /\ UNCHANGED orchVars

\* DELETE /admin/tokens/{token_id}, up to the answer to db.get (main.py 593-602).
DeleteTokenSelect(h, key, token_id) ==
    /\ FirstFree(h)
    /\ LET request == HandlerRequest("delete_token", key, token_id, EmptyDict)
           denied == verify_admin_token(key, adminEnv.ADMIN_API_TOKEN)
       IN  IF denied # 0 THEN Denied(h, request.op, key, denied)
           ELSE IF get_token(tokens, token_id) = NoToken THEN Answer(h, request, 404)
           ELSE Await(h, request, "commit", token_id, EmptyDict)
    /\ UNCHANGED <<tokens, adminEnv>>
    /\ UNCHANGED createVars
    /\ UNCHANGED billingVars
    /\ UNCHANGED orchVars

\* db.delete(db_token) and the commit (main.py 605-606, crud_token.py 46-47).
DeleteToken(h, stale) ==
    LET token_id == handlers[h].obj
    IN  IF get_token(tokens, token_id) = NoToken
        THEN /\ Answer(h, handlers[h], stale)
             /\ UNCHANGED tokens
        ELSE /\ tokens' = [tokens EXCEPT ![token_id].live = FALSE]
             /\ Answer(h, handlers[h], 204)

DeleteTokenCommit(h, stale) ==
    /\ At(h, "delete_token", "commit")
    /\ DeleteToken(h, stale)
    /\ UNCHANGED adminEnv
    /\ UNCHANGED createVars
    /\ UNCHANGED billingVars
    /\ UNCHANGED orchVars

\* Token values of a DELETE /tokens/{token_value} (core.py 94-107): the value
\* of a token generated (40 characters), one of the same length that no row
\* has, and one too short to pass the length check.
ShortToken == "abc"
UnknownToken == "tok-unknown"
TokenValues == {generate_secure_token(n) : n \in 1..MaxTokens} \cup {ShortToken, UnknownToken}
\* 20 < len(token_value) < 100
ValidTokenFormat(token_value) == token_value # ShortToken

\* DELETE /tokens/{token_value}, up to the answer to get_token_by_value
\* (core.py 98-106, crud_token.py 41-43).  The route takes no admin key.
RemoveTokenSelect(h, token_value) ==
    /\ FirstFree(h)
    /\ LET request == HandlerRequest("remove_token", token_value, 0, EmptyDict)
           found == get_token_by_value(tokens, token_value)
       IN  IF ~ValidTokenFormat(token_value) THEN Answer(h, request, 400)
           ELSE IF found = NoToken THEN Answer(h, request, 404)
           ELSE Await(h, request, "commit", found, EmptyDict)
    /\ UNCHANGED <<tokens, adminEnv>>
    /\ UNCHANGED createVars
    /\ UNCHANGED billingVars
    /\ UNCHANGED orchVars

RemoveTokenCommit(h, stale) ==
    /\ At(h, "remove_token", "commit")
    /\ DeleteToken(h, stale)
    /\ UNCHANGED adminEnv
    /\ UNCHANGED createVars
    /\ UNCHANGED billingVars
    /\ UNCHANGED orchVars

\* Values of the X-API-Key header of a PUT /user/webhook (None: no header).
ApiKeys == {None, generate_secure_token(1), UnknownToken}
WebhookUrls == {"https://hook.example/2"}

\* get_current_user (main.py 70-83): the status of the HTTPException it
\* raises, 0 when it returns the user of the token.
get_current_user(T, U, api_key) ==
    LET db_token == get_token_by_value(T, api_key)
    IN  IF Falsy(api_key) THEN [status |-> 401, user |-> NoUser]
        ELSE IF db_token = NoToken THEN [status |-> 403, user |-> NoUser]
        ELSE IF get_user(U, T[db_token].user_id) = NoUser THEN [status |-> 403, user |-> NoUser]
        ELSE [status |-> 0, user |-> T[db_token].user_id]

\* PUT /user/webhook (main.py 385-411), from its dependency get_current_user
\* to its commit: webhook_url is set in the data read, and the whole column
\* is written.
SetWebhookSelect(h, api_key, url) ==
    /\ FirstFree(h)
    /\ LET request == HandlerRequest("set_user_webhook", api_key, 0, [webhook_url |-> url])
           current == get_current_user(tokens, users, api_key)
       IN  IF current.status # 0 THEN Answer(h, request, current.status)
           ELSE Await(h, request, "commit", current.user,
                      [data |-> DictUpdate(DataOrEmpty(users[current.user].data),
                                           [webhook_url |-> url])])
    /\ UNCHANGED <<tokens, adminEnv>>
    /\ UNCHANGED createVars
    /\ UNCHANGED billingVars
    /\ UNCHANGED orchVars

SetWebhookCommit(h) ==
    /\ At(h, "set_user_webhook", "commit")
    /\ CommitWrites(h)
    /\ UNCHANGED <<creates, emailUnique, tokens, adminEnv>>
    /\ UNCHANGED billingVars
    /\ UNCHANGED orchVars

SetWebhookRefresh(h) ==
    /\ At(h, "set_user_webhook", "refresh")
    /\ RefreshUser(h)
    /\ UNCHANGED <<tokens, adminEnv>>
    /\ UNCHANGED createVars
    /\ UNCHANGED billingVars
    /\ UNCHANGED orchVars

\* ------------------------------------------------ admin API: plans
\* The billing routes (api/routes/billing.py) over crud_plan.py and
\* crud_user_plan.py.  A slot holds a request from its arrival to its answer,
\* and takes the next request once it is answered; a handler gives way to the
\* other requests at each await.
PlanCalls == 1..MaxPlanCalls
PlanIds == 1..MaxPlans
PlanNames == {"free", "pro"}
NoPlan == 0

\* model_limits of a PlanCreate body: one limit.
ModelLimits == {<<[model_identifier |-> "faster-whisper-medium", monthly_included_hours |-> 10]>>}
PlanCreateBodies == {[name |-> n, model_limits |-> l] : n \in PlanNames, l \in ModelLimits}
\* PlanUpdate bodies as obj_in.dict(exclude_unset=True) gives them.
PlanUpdateBodies ==
    {[name |-> n] : n \in PlanNames} \cup {[max_concurrent_bots |-> 2]}
    \cup {[name |-> "pro", max_concurrent_bots |-> 2]}

\* A row of plans.  pending: inserted by a transaction that has not committed;
\* live: committed and not deleted.
NoPlanRow == [id |-> NoPlan, name |-> None, max_concurrent_bots |-> 0, model_limits |-> << >>,
              live |-> FALSE, pending |-> FALSE]
\* A row of user_plans.
NoAssignment == [id |-> 0, user_id |-> NoUser, plan_id |-> NoPlan, live |-> FALSE]

IdlePlanCall == [pc |-> "idle", op |-> "none", arg |-> 0, body |-> EmptyDict,
                 db_obj |-> NoPlanRow, status |-> 0]
FreePlanCall(r) == planCalls[r].pc \in {"idle", "done"}
\* A request takes the first slot that is free.
FirstFreePlanCall(r) == FreePlanCall(r) /\ \A q \in PlanCalls : q < r => ~FreePlanCall(q)
PlanRequest(op, arg, body) == [IdlePlanCall EXCEPT !.op = op, !.arg = arg, !.body = body]
\* The request is answered.
PlanAnswer(r, request, status) ==
    planCalls' = [planCalls EXCEPT ![r] =
                    [IdlePlanCall EXCEPT !.pc = "done", !.op = request.op, !.status = status]]
\* The request waits at an await for the database.
PlanAwait(r, request, pc, db_obj) ==
    planCalls' = [planCalls EXCEPT ![r] = [request EXCEPT !.pc = pc, !.db_obj = db_obj]]
PlanAt(r, op, pc) == planCalls[r].op = op /\ planCalls[r].pc = pc

\* Plan ids that have a committed row (a deleted row keeps its id out of use).
LivePlans(P) == {i \in DOMAIN P : P[i].live}

\* get_plan (crud_plan.py 12-19) and db.get(Plan, id): the id, NoPlan without a row.
get_plan(P, plan_id) == IF plan_id \in LivePlans(P) THEN plan_id ELSE NoPlan

\* get_plan_by_name (crud_plan.py 21-26): the first plan of that name.
get_plan_by_name(P, name) ==
    IF \E i \in LivePlans(P) : P[i].name = name
    THEN CHOOSE i \in LivePlans(P) :
            P[i].name = name /\ \A j \in LivePlans(P) : P[j].name = name => i <= j
    ELSE NoPlan

\* Plan.name is unique=True (billing_models.py 16): an INSERT or UPDATE that
\* gives plan_id a name another row holds fails with IntegrityError.
NameConstraintViolated(P, name, plan_id) ==
    \E i \in LivePlans(P) : i # plan_id /\ P[i].name = name

\* An INSERT or UPDATE that gives plan_id a name which a row inserted by an
\* open transaction holds waits for that transaction to end.
NameLocked(P, name, plan_id) ==
    \E i \in DOMAIN P : i # plan_id /\ P[i].pending /\ P[i].name = name

\* Assignment ids that have a row.
LiveAssignments(UP) == {i \in DOMAIN UP : UP[i].live}

\* get_user_plan_by_user (crud_user_plan.py 12-19): the id of the user's
\* assignment, 0 without one.
get_user_plan_by_user(UP, user_id) ==
    IF \E i \in LiveAssignments(UP) : UP[i].user_id = user_id
    THEN CHOOSE i \in LiveAssignments(UP) : UP[i].user_id = user_id
    ELSE 0

\* The assignments of plan_id (Plan.user_assignments).
AssignedTo(UP, plan_id) == {i \in LiveAssignments(UP) : UP[i].plan_id = plan_id}

\* create_plan requests that will insert a row and have not yet.
PlansUnderway == {r \in PlanCalls : PlanAt(r, "create_plan", "flush")}

\* POST /plans: create_plan_with_limits up to the answer to its name check
\* (crud_plan.py 39-46), as the route answers it (billing.py 21-31): 409 for a
\* name that exists.
PlanCreateCheck(r, body) ==
    /\ FirstFreePlanCall(r)
    /\ Len(plans) + Cardinality(PlansUnderway) < MaxPlans
    /\ LET request == PlanRequest("create_plan", 0, body)
       IN  IF get_plan_by_name(plans, body.name) # NoPlan THEN PlanAnswer(r, request, 409)
           ELSE PlanAwait(r, request, "flush", NoPlanRow)
    /\ UNCHANGED <<plans, userPlans>>
    /\ UNCHANGED createVars
    /\ UNCHANGED apiVars
    /\ UNCHANGED orchVars

\* db.add(db_plan) and the flush (crud_plan.py 49-52): the INSERT, in the
\* request's transaction.  It fails on the unique name (500 from the route's
\* except Exception) and waits while an open transaction holds the name.
PlanCreateFlush(r) ==
    /\ PlanAt(r, "create_plan", "flush")
    /\ LET body == planCalls[r].body
           new_id == Len(plans) + 1
           row == [id |-> new_id, name |-> body.name, max_concurrent_bots |-> 1,
                   model_limits |-> body.model_limits, live |-> FALSE, pending |-> TRUE]
       IN  /\ ~NameLocked(plans, body.name, new_id)
           /\ IF NameConstraintViolated(plans, body.name, new_id)
              THEN /\ PlanAnswer(r, planCalls[r], 500)
                   /\ UNCHANGED plans
              ELSE /\ plans' = Append(plans, row)
                   /\ PlanAwait(r, planCalls[r], "commit", row)
    /\ UNCHANGED userPlans
    /\ UNCHANGED createVars
    /\ UNCHANGED apiVars
    /\ UNCHANGED orchVars

\* The limits and the commit (crud_plan.py 54-63): the row is there for the
\* other requests.
PlanCreateCommit(r) ==
    /\ PlanAt(r, "create_plan", "commit")
    /\ plans' = [plans EXCEPT ![planCalls[r].db_obj.id] = [@ EXCEPT !.live = TRUE, !.pending = FALSE]]
    /\ PlanAwait(r, planCalls[r], "refresh", planCalls[r].db_obj)
    /\ UNCHANGED userPlans
    /\ UNCHANGED createVars
    /\ UNCHANGED apiVars
    /\ UNCHANGED orchVars

\* db.refresh(db_plan) (crud_plan.py 64, 94): it raises when the plan has been
\* deleted since, and the route answers 500.
RefreshPlan(r, status) ==
    IF get_plan(plans, planCalls[r].db_obj.id) = NoPlan THEN PlanAnswer(r, planCalls[r], 500)
    ELSE PlanAnswer(r, planCalls[r], status)

PlanCreateRefresh(r) ==
    /\ PlanAt(r, "create_plan", "refresh")
    /\ RefreshPlan(r, 201)
    /\ UNCHANGED <<plans, userPlans>>
    /\ UNCHANGED createVars
    /\ UNCHANGED apiVars
    /\ UNCHANGED orchVars

\* The name of the body is one to check: given, and not the name read.
ChangesName(body, db_obj) == "name" \in DOMAIN body /\ body.name # db_obj.name

\* PUT /plans/{plan_id}: the route reads the plan (billing.py 45-49), 404
\* without one; update_plan goes on to the name check when the name changes
\* (crud_plan.py 76-79).
PlanUpdateRead(r, plan_id, body) ==
    /\ FirstFreePlanCall(r)
    /\ LET request == PlanRequest("update_plan", plan_id, body)
           found == get_plan(plans, plan_id)
       IN  IF found = NoPlan THEN PlanAnswer(r, request, 404)
           ELSE IF ChangesName(body, plans[found]) THEN PlanAwait(r, request, "check", plans[found])
           ELSE PlanAwait(r, request, "commit", plans[found])
    /\ UNCHANGED <<plans, userPlans>>
    /\ UNCHANGED createVars
    /\ UNCHANGED apiVars
    /\ UNCHANGED orchVars

\* The name check of update_plan (crud_plan.py 80-83): ValueError, 409, when
\* another plan has the name.
PlanUpdateCheck(r) ==
    /\ PlanAt(r, "update_plan", "check")
    /\ LET existing_plan == get_plan_by_name(plans, planCalls[r].body.name)
       IN  IF existing_plan # NoPlan /\ existing_plan # planCalls[r].db_obj.id
           THEN PlanAnswer(r, planCalls[r], 409)
           ELSE PlanAwait(r, planCalls[r], "commit", planCalls[r].db_obj)
    /\ UNCHANGED <<plans, userPlans>>
    /\ UNCHANGED createVars
    /\ UNCHANGED apiVars
    /\ UNCHANGED orchVars

\* setattr of the fields (crud_plan.py 85-87): the columns the commit writes
\* are those whose value differs from the value read.
PlanWrites(body, db_obj) ==
    [f \in {g \in DOMAIN body : body[g] # db_obj[g]} |-> body[f]]

\* The commit of update_plan (crud_plan.py 92-93).  The UPDATE of a row that
\* is gone matches no row and fails at once (500), whoever holds the name; the
\* UPDATE of a row that is there waits while an open transaction holds the
\* name it sets, and fails (500) when the name is another row's.
PlanUpdateCommit(r) ==
    /\ PlanAt(r, "update_plan", "commit")
    /\ LET db_obj == planCalls[r].db_obj
           writes == PlanWrites(planCalls[r].body, db_obj)
           sets_name == "name" \in DOMAIN writes
           gone == writes # EmptyDict /\ get_plan(plans, db_obj.id) = NoPlan
       IN  /\ (sets_name /\ ~gone) => ~NameLocked(plans, writes.name, db_obj.id)
           /\ IF gone
              THEN /\ PlanAnswer(r, planCalls[r], 500)
                   /\ UNCHANGED plans
              ELSE IF sets_name /\ NameConstraintViolated(plans, writes.name, db_obj.id)
              THEN /\ PlanAnswer(r, planCalls[r], 500)
                   /\ UNCHANGED plans
              ELSE /\ plans' = IF writes = EmptyDict THEN plans
                               ELSE [plans EXCEPT ![db_obj.id] = ApplyWrites(@, writes)]
                   /\ PlanAwait(r, planCalls[r], "refresh", db_obj)
    /\ UNCHANGED userPlans
    /\ UNCHANGED createVars
    /\ UNCHANGED apiVars
    /\ UNCHANGED orchVars

PlanUpdateRefresh(r) ==
    /\ PlanAt(r, "update_plan", "refresh")
    /\ RefreshPlan(r, 200)
    /\ UNCHANGED <<plans, userPlans>>
    /\ UNCHANGED createVars
    /\ UNCHANGED apiVars
    /\ UNCHANGED orchVars

\* The status DELETE /plans/{plan_id} answers without a plan: the route raises
\* its 404 inside the try block (billing.py 64-65), HTTPException is no
\* ValueError, so the except Exception of lines 70-72 turns it into a 500.
PlanNotFoundStatus == 500

\* DELETE /plans/{plan_id}: remove_plan up to the answer to its SELECT
\* (crud_plan.py 98-104).  The SELECT does not load the plan's limits.
PlanDeleteRead(r, plan_id) ==
    /\ FirstFreePlanCall(r)
    /\ LET request == PlanRequest("delete_plan", plan_id, EmptyDict)
           found == get_plan(plans, plan_id)
       IN  IF found = NoPlan THEN PlanAnswer(r, request, PlanNotFoundStatus)
           ELSE PlanAwait(r, request, "delete", [plans[found] EXCEPT !.model_limits = << >>])
    /\ UNCHANGED <<plans, userPlans>>
    /\ UNCHANGED createVars
    /\ UNCHANGED apiVars
    /\ UNCHANGED orchVars

\* db.delete(db_obj) (crud_plan.py 111): Plan.model_limits cascades the delete
\* (billing_models.py 22), so the limits are read now, to be deleted with the
\* plan; a plan deleted since has none left.
PlanDeleteCascade(r) ==
    /\ PlanAt(r, "delete_plan", "delete")
    /\ LET db_obj == planCalls[r].db_obj
           model_limits == IF get_plan(plans, db_obj.id) = NoPlan THEN << >>
                           ELSE plans[db_obj.id].model_limits
       IN  PlanAwait(r, planCalls[r], "commit", [db_obj EXCEPT !.model_limits = model_limits])
    /\ UNCHANGED <<plans, userPlans>>
    /\ UNCHANGED createVars
    /\ UNCHANGED apiVars
    /\ UNCHANGED orchVars

\* The commit (crud_plan.py 112), which deletes the limits read and the
\* plan.  The check for assignments is commented out (105-108).
\* Plan.user_assignments has no
\* delete cascade, so the flush sets plan_id of the plan's assignments to
\* NULL; the column is NOT NULL (billing_models.py 42), the commit fails with
\* IntegrityError and the route answers 500 (billing.py 70-72).  stale: the
\* answer when the row has been deleted since the SELECT.
remove_plan(P, UP, plan_id, stale) ==
    IF get_plan(P, plan_id) = NoPlan THEN [plans |-> P, status |-> stale]
    ELSE IF AssignedTo(UP, plan_id) # {} THEN [plans |-> P, status |-> 500]
    ELSE [plans |-> [P EXCEPT ![plan_id] = [@ EXCEPT !.live = FALSE, !.model_limits = << >>]],
          status |-> 204]

PlanDeleteCommit(r, stale) ==
    /\ PlanAt(r, "delete_plan", "commit")
    /\ LET result == remove_plan(plans, userPlans, planCalls[r].db_obj.id, stale)
       IN  /\ plans' = result.plans
           /\ PlanAnswer(r, planCalls[r], result.status)
    /\ UNCHANGED userPlans
    /\ UNCHANGED createVars
    /\ UNCHANGED apiVars
    /\ UNCHANGED orchVars

\* ------------------------------------------------ admin API: plan assignments
Assignments == 1..MaxAssignments
\* UserPlanCreate bodies (user_id, plan_id) and UserPlanUpdate bodies (plan_id
\* given or not), as obj_in.dict(exclude_unset=True) gives them.
UserPlanCreateBodies ==
    {[user_id |-> 1, plan_id |-> p] : p \in PlanIds} \cup {[user_id |-> MaxUsers, plan_id |-> 1]}
UserPlanUpdateBodies == {[plan_id |-> p] : p \in PlanIds} \cup {EmptyDict}

\* assign_plan_to_user requests that may insert a row and have not yet.
AssignmentsUnderway ==
    {r \in PlanCalls : planCalls[r].op = "assign_plan"
                       /\ planCalls[r].pc \in {"read_plan", "read_current", "commit"}}

\* POST /users/{user_id}/plan: 400 when the body names another user
\* (billing.py 77-78); assign_or_update_user_plan up to the answer to
\* db.get(User) (crud_user_plan.py 29-32), 404 without the user.
AssignPlanReadUser(r, user_id, body) ==
    /\ FirstFreePlanCall(r)
    /\ Len(userPlans) + Cardinality(AssignmentsUnderway) < MaxAssignments
    /\ LET request == PlanRequest("assign_plan", user_id, body)
       IN  IF body.user_id # user_id THEN PlanAnswer(r, request, 400)
           ELSE IF get_user(users, user_id) = NoUser THEN PlanAnswer(r, request, 404)
           ELSE PlanAwait(r, request, "read_plan", NoAssignment)
    /\ UNCHANGED <<plans, userPlans>>
    /\ UNCHANGED createVars
    /\ UNCHANGED apiVars
    /\ UNCHANGED orchVars

\* db.get(Plan) (crud_user_plan.py 35-38): 404 without the plan.
AssignPlanReadPlan(r) ==
    /\ PlanAt(r, "assign_plan", "read_plan")
    /\ IF get_plan(plans, planCalls[r].body.plan_id) = NoPlan THEN PlanAnswer(r, planCalls[r], 404)
       ELSE PlanAwait(r, planCalls[r], "read_current", NoAssignment)
    /\ UNCHANGED <<plans, userPlans>>
    /\ UNCHANGED createVars
    /\ UNCHANGED apiVars
    /\ UNCHANGED orchVars

\* The row read by get_user_plan_by_user.
AssignmentRead(UP, user_id) ==
    IF get_user_plan_by_user(UP, user_id) = 0 THEN NoAssignment
    ELSE UP[get_user_plan_by_user(UP, user_id)]

\* The user's assignment is read (crud_user_plan.py 40).
AssignPlanReadCurrent(r) ==
    /\ PlanAt(r, "assign_plan", "read_current")
    /\ PlanAwait(r, planCalls[r], "commit", AssignmentRead(userPlans, planCalls[r].arg))
    /\ UNCHANGED <<plans, userPlans>>
    /\ UNCHANGED createVars
    /\ UNCHANGED apiVars
    /\ UNCHANGED orchVars

\* The commit of an assignment read before (crud_user_plan.py 42-49, 56 and
\* 76-81): the UPDATE writes plan_id when it differs from the value read.  It
\* fails (500) when the row is gone, and on the foreign key when the plan is.
UpdateAssignment(P, UP, db_obj, body) ==
    LET changes == "plan_id" \in DOMAIN body /\ body.plan_id # db_obj.plan_id
    IN  IF ~changes THEN [userPlans |-> UP, ok |-> TRUE]
        ELSE IF ~(db_obj.id \in LiveAssignments(UP)) THEN [userPlans |-> UP, ok |-> FALSE]
        ELSE IF get_plan(P, body.plan_id) = NoPlan THEN [userPlans |-> UP, ok |-> FALSE]
        ELSE [userPlans |-> [UP EXCEPT ![db_obj.id].plan_id = body.plan_id], ok |-> TRUE]

\* The commit of a new assignment (crud_user_plan.py 50-56): the INSERT fails
\* (500) on the unique user_id (billing_models.py 41) and on the foreign keys
\* to users and plans.
InsertAssignment(U, P, UP, body) ==
    IF get_user_plan_by_user(UP, body.user_id) # 0 THEN [userPlans |-> UP, ok |-> FALSE]
    ELSE IF get_user(U, body.user_id) = NoUser THEN [userPlans |-> UP, ok |-> FALSE]
    ELSE IF get_plan(P, body.plan_id) = NoPlan THEN [userPlans |-> UP, ok |-> FALSE]
    ELSE [userPlans |-> Append(UP, [id |-> Len(UP) + 1, user_id |-> body.user_id,
                                    plan_id |-> body.plan_id, live |-> TRUE]),
          ok |-> TRUE]

AssignPlanCommit(r) ==
    /\ PlanAt(r, "assign_plan", "commit")
    /\ LET db_obj == planCalls[r].db_obj
           result == IF db_obj = NoAssignment
                     THEN InsertAssignment(users, plans, userPlans, planCalls[r].body)
                     ELSE UpdateAssignment(plans, userPlans, db_obj, planCalls[r].body)
           row == IF db_obj = NoAssignment /\ result.ok
                  THEN result.userPlans[Len(result.userPlans)] ELSE db_obj
       IN  /\ userPlans' = result.userPlans
           /\ IF result.ok THEN PlanAwait(r, planCalls[r], "refresh", row)
              ELSE PlanAnswer(r, planCalls[r], 500)
    /\ UNCHANGED plans
    /\ UNCHANGED createVars
    /\ UNCHANGED apiVars
    /\ UNCHANGED orchVars

\* PUT /users/{user_id}/plan: the route reads the assignment (billing.py
\* 104-106), 404 without one; update_user_plan_assignment goes on to db.get of
\* the plan when plan_id changes (crud_user_plan.py 70-71).
UpdateAssignmentRead(r, user_id, body) ==
    /\ FirstFreePlanCall(r)
    /\ LET request == PlanRequest("update_user_plan", user_id, body)
           db_obj == AssignmentRead(userPlans, user_id)
       IN  IF db_obj = NoAssignment THEN PlanAnswer(r, request, 404)
           ELSE IF "plan_id" \in DOMAIN body /\ body.plan_id # db_obj.plan_id
           THEN PlanAwait(r, request, "check_plan", db_obj)
           ELSE PlanAwait(r, request, "commit", db_obj)
    /\ UNCHANGED <<plans, userPlans>>
    /\ UNCHANGED createVars
    /\ UNCHANGED apiVars
    /\ UNCHANGED orchVars

\* db.get of the new plan (crud_user_plan.py 71-74): ValueError "not found",
\* 404 from the route (billing.py 113-116).
UpdateAssignmentCheckPlan(r) ==
    /\ PlanAt(r, "update_user_plan", "check_plan")
    /\ IF get_plan(plans, planCalls[r].body.plan_id) = NoPlan THEN PlanAnswer(r, planCalls[r], 404)
       ELSE PlanAwait(r, planCalls[r], "commit", planCalls[r].db_obj)
    /\ UNCHANGED <<plans, userPlans>>
    /\ UNCHANGED createVars
    /\ UNCHANGED apiVars
    /\ UNCHANGED orchVars

UpdateAssignmentCommit(r) ==
    /\ PlanAt(r, "update_user_plan", "commit")
    /\ LET result == UpdateAssignment(plans, userPlans, planCalls[r].db_obj, planCalls[r].body)
       IN  /\ userPlans' = result.userPlans
           /\ IF result.ok THEN PlanAwait(r, planCalls[r], "refresh", planCalls[r].db_obj)
              ELSE PlanAnswer(r, planCalls[r], 500)
    /\ UNCHANGED plans
    /\ UNCHANGED createVars
    /\ UNCHANGED apiVars
    /\ UNCHANGED orchVars

AssignmentOps == {"assign_plan", "update_user_plan"}
\* The status of a request of the two routes that goes through.
AssignmentStatus(op) == IF op = "assign_plan" THEN 201 ELSE 200

\* db.refresh(db_obj) (crud_user_plan.py 57, 82): it raises when the row has
\* been deleted since, and the route answers 500.
UserPlanRefresh(r) ==
    /\ planCalls[r].op \in AssignmentOps
    /\ planCalls[r].pc = "refresh"
    /\ IF planCalls[r].db_obj.id \in LiveAssignments(userPlans)
       THEN PlanAwait(r, planCalls[r], "refetch", planCalls[r].db_obj)
       ELSE PlanAnswer(r, planCalls[r], 500)
    /\ UNCHANGED <<plans, userPlans>>
    /\ UNCHANGED createVars
    /\ UNCHANGED apiVars
    /\ UNCHANGED orchVars

\* The route reads the assignment again for the response (billing.py 82,
\* 112).  Without a row the response model rejects None: 500.
UserPlanRefetch(r) ==
    /\ planCalls[r].op \in AssignmentOps
    /\ planCalls[r].pc = "refetch"
    /\ IF get_user_plan_by_user(userPlans, planCalls[r].arg) = 0 THEN PlanAnswer(r, planCalls[r], 500)
       ELSE PlanAnswer(r, planCalls[r], AssignmentStatus(planCalls[r].op))
    /\ UNCHANGED <<plans, userPlans>>
    /\ UNCHANGED createVars
    /\ UNCHANGED apiVars
    /\ UNCHANGED orchVars

\* DELETE /users/{user_id}/plan: remove_user_plan_by_user up to the answer to
\* its SELECT (crud_user_plan.py 88-89), 404 from the route without a row
\* (billing.py 124-125).
RemoveAssignmentRead(r, user_id) ==
    /\ FirstFreePlanCall(r)
    /\ LET request == PlanRequest("remove_user_plan", user_id, EmptyDict)
           db_obj == AssignmentRead(userPlans, user_id)
       IN  IF db_obj = NoAssignment THEN PlanAnswer(r, request, 404)
           ELSE PlanAwait(r, request, "commit", db_obj)
    /\ UNCHANGED <<plans, userPlans>>
    /\ UNCHANGED createVars
    /\ UNCHANGED apiVars
    /\ UNCHANGED orchVars

\* db.delete(db_obj) and the commit (crud_user_plan.py 91-92).  stale: the
\* answer when the row has been deleted since the SELECT.
RemoveAssignmentCommit(r, stale) ==
    /\ PlanAt(r, "remove_user_plan", "commit")
    /\ LET id == planCalls[r].db_obj.id
       IN  IF id \in LiveAssignments(userPlans)
           THEN /\ userPlans' = [userPlans EXCEPT ![id].live = FALSE]
                /\ PlanAnswer(r, planCalls[r], 204)
           ELSE /\ UNCHANGED userPlans
                /\ PlanAnswer(r, planCalls[r], stale)
    /\ UNCHANGED plans
    /\ UNCHANGED createVars
    /\ UNCHANGED apiVars
    /\ UNCHANGED orchVars

\* ------------------------------------------------ admin API: delete user
\* DELETE /users/{user_id}, up to the answer to get_user (core.py 64-72,
\* crud_user.py 34-38).  The route takes no admin key.
DeleteUserSelect(h, user_id) ==
    /\ FirstFree(h)
    /\ LET request == HandlerRequest("delete_user", None, user_id, EmptyDict)
       IN  IF get_user(users, user_id) = NoUser THEN Answer(h, request, 404)
           ELSE Await(h, request, "commit", user_id, EmptyDict)
    /\ UNCHANGED <<tokens, adminEnv>>
    /\ UNCHANGED createVars
    /\ UNCHANGED billingVars
    /\ UNCHANGED orchVars

\* db.delete(db_user) and the commit (crud_user.py 42-43).  Whether the tokens
\* and the plan assignment of the user go with it is decided by the cascade
\* rules of shared_models/models.py ("depending on cascade rules", crud_user.py
\* 41): the user is deleted together with them, or the delete fails (500 from
\* the route) and nothing is deleted.  undecided chooses; it also is the
\* answer when the row has been deleted since the SELECT.
DeleteUserCommit(h, undecided) ==
    /\ At(h, "delete_user", "commit")
    /\ LET user_id == handlers[h].obj
           assignment == get_user_plan_by_user(userPlans, user_id)
           referred == TokensOf(tokens, user_id) # {} \/ assignment # 0
           gone == get_user(users, user_id) = NoUser
       IN  IF gone
           THEN /\ Answer(h, handlers[h], undecided)
                /\ UNCHANGED <<users, tokens, userPlans>>
           ELSE IF referred /\ undecided = 500
           THEN /\ Answer(h, handlers[h], 500)
                /\ UNCHANGED <<users, tokens, userPlans>>
           ELSE /\ users' = [users EXCEPT ![user_id].live = FALSE]
                /\ tokens' = [i \in DOMAIN tokens |->
                                IF tokens[i].user_id = user_id
                                THEN [tokens[i] EXCEPT !.live = FALSE] ELSE tokens[i]]
                /\ userPlans' = [i \in DOMAIN userPlans |->
                                   IF userPlans[i].user_id = user_id
                                   THEN [userPlans[i] EXCEPT !.live = FALSE]
                                   ELSE userPlans[i]]
                /\ Answer(h, handlers[h], 204)
    /\ UNCHANGED <<creates, emailUnique, adminEnv>>
    /\ UNCHANGED <<plans, planCalls>>
    /\ UNCHANGED orchVars

\* ------------------------------------------------------------ specification
BillingIdle ==
    /\ plans = << >>
    /\ userPlans = << >>
    /\ planCalls = [r \in PlanCalls |-> IdlePlanCall]

\* No request is made to the admin API; the orchestration does not read its tables.
AdminIdle ==
    /\ users = << >>
    /\ creates = [r \in Creates |-> IdleCreate]
    /\ emailUnique = TRUE
    /\ tokens = << >>
    /\ adminEnv = [ADMIN_API_TOKEN |-> None, STRIPE_WEBHOOK_SECRET |-> None]
    /\ handlers = [h \in Handlers |-> IdleHandler]
    /\ BillingIdle

Init ==
    /\ calls = [c \in Calls |-> IdleCall]
    /\ jobs = [j \in {} |-> NewJob(NoRequest, None, 0)]
    /\ sessions = [c \in {} |-> NewSession(NoRequest, NoneNone)]
    /\ leases = [k \in {get_active_bots_key(u) : u \in Users} |-> {}]
    /\ recon = IdleRecon
    /\ planLimit \in [Users -> 1..MaxLimit]
    /\ AdminIdle

Next ==
    \/ \E c \in 1..MaxCalls, u \in Users, m \in Meetings : Admit(c, u, m)
    \/ \E c \in Calls, registered \in BOOLEAN : DriverPost(c, registered)
    \/ \E c \in Calls, o \in DispatchOutcomes : DriverReturn(c, o)
    \/ \E c \in Calls : Record(c)
    \/ \E c \in Calls : StopBot(c)
    \/ \E u \in Users, lq \in ListOutcomes : ReconcileList(u, lq)
    \/ \E q \in DetailOutcomes : ReconcileDetail(q)
    \/ \E j \in DOMAIN jobs : AllocStart(j)
    \/ \E j \in DOMAIN jobs : AllocFail(j)
    \/ \E j \in DOMAIN jobs : WorkerStop(j)

Spec == Init /\ [][Next]_vars

\* The quota scenario of spec.md section 8: one user, QuotaCalls concurrent StartBot
\* calls with distinct meeting ids, under every interleaving with stop requests,
\* Reconciler passes and the cluster.  The user's plan limit is 2, and the
\* dispatch outcomes are: accepted with a job id, accepted without an id, and
\* rejected.
QuotaUser == 1
QuotaLimit == 2
QuotaOutcomes == {"ok_job", "ok_noid", "http_error"}

InitQuota ==
    Init /\ planLimit[QuotaUser] = QuotaLimit /\ \A u \in Users \ {QuotaUser} : planLimit[u] = 1

NextQuota ==
    \/ \E c \in 1..QuotaCalls : Admit(c, QuotaUser, c)
    \/ \E c \in Calls, registered \in BOOLEAN : DriverPost(c, registered)
    \/ \E c \in Calls, o \in QuotaOutcomes : DriverReturn(c, o)
    \/ \E c \in Calls : Record(c)
    \/ \E c \in Calls : StopBot(c)
    \/ \E lq \in ListOutcomes : ReconcileList(QuotaUser, lq)
    \/ \E q \in DetailOutcomes : ReconcileDetail(q)
    \/ \E j \in DOMAIN jobs : AllocStart(j)
    \/ \E j \in DOMAIN jobs : AllocFail(j)
    \/ \E j \in DOMAIN jobs : WorkerStop(j)

SpecQuota == InitQuota /\ [][NextQuota]_vars

OrchestrationIdle ==
    /\ calls = [c \in Calls |-> IdleCall]
    /\ jobs = [j \in {} |-> NewJob(NoRequest, None, 0)]
    /\ sessions = [c \in {} |-> NewSession(NoRequest, NoneNone)]
    /\ leases = [k \in {get_active_bots_key(u) : u \in Users} |-> {}]
    /\ recon = IdleRecon
    /\ planLimit = [u \in Users |-> 1]

AdminToken == "secret"
UserIds == 1..MaxUsers
TokenIds == 1..MaxTokens

\* The create-user requests of the admin API, MaxCreates of them by the three
\* paths, and requests that delete users, under every interleaving of their
\* database steps.  The users table is declared in shared_models/models.py,
\* which is not part of the source tree at hand: both a table with a unique
\* email column and one without are considered.
InitUsers ==
    /\ OrchestrationIdle
    /\ users = << >>
    /\ creates = [r \in Creates |-> IdleCreate]
    /\ emailUnique \in BOOLEAN
    /\ tokens = << >>
    /\ adminEnv = [ADMIN_API_TOKEN |-> AdminToken, STRIPE_WEBHOOK_SECRET |-> WebhookSecret]
    /\ handlers = [h \in Handlers |-> IdleHandler]
    /\ BillingIdle

NextUsers ==
    \/ \E r \in Creates, email \in Emails : AdminCreateUser(r, AdminToken, email)
    \/ \E r \in Creates, email \in Emails : CoreCreateUser(r, email)
    \/ \E r \in Creates, req \in SignedUpdates : WebhookReceive(r, req)
    \/ \E r \in Creates : CreateCommit(r)
    \/ \E r \in Creates : CreateRefresh(r)
    \/ \E r \in Creates : WebhookCommit(r)
    \/ \E r \in Creates : WebhookRefresh(r)
    \/ \E user_id \in 1..MaxCreates : DeleteUserSelect(1, user_id)
    \/ \E undecided \in Undecided : DeleteUserCommit(1, undecided)

SpecUsers == InitUsers /\ [][NextUsers]_vars

\* The /admin router: requests with every kind of key, under every setting of
\* ADMIN_API_TOKEN.  ann exists; one request to the user and token routes is
\* in flight at a time, together with one that creates a user.
InitAdmin ==
    /\ OrchestrationIdle
    /\ users = CommitUser(<< >>, TRUE, Ann, None)
    /\ creates = [r \in Creates |-> IdleCreate]
    /\ emailUnique = TRUE
    /\ tokens = << >>
    /\ \E t \in AdminTokenValues :
          adminEnv = [ADMIN_API_TOKEN |-> t, STRIPE_WEBHOOK_SECRET |-> None]
    /\ handlers = [h \in Handlers |-> IdleHandler]
    /\ BillingIdle

NextAdmin ==
    \/ \E key \in AdminKeys, email \in Emails : AdminCreateUser(1, key, email)
    \/ CreateCommit(1)
    \/ CreateRefresh(1)
    \/ \E key \in AdminKeys, user_id \in UserIds : AdminGetUser(1, key, user_id)
    \/ \E key \in AdminKeys, user_id \in UserIds, body \in PatchBodies :
          UpdateUserSelect(1, key, user_id, body)
    \/ UpdateUserCommit(1)
    \/ UpdateUserRefresh(1)
    \/ \E key \in AdminKeys, user_id \in UserIds :
          Len(tokens) < AdminTokens /\ CreateTokenSelect(1, key, user_id)
    \/ CreateTokenCommit(1)
    \/ CreateTokenRefresh(1)
    \/ \E key \in AdminKeys, token_id \in 1..AdminTokens : DeleteTokenSelect(1, key, token_id)
    \/ \E stale \in Undecided : DeleteTokenCommit(1, stale)

SpecAdmin == InitAdmin /\ [][NextAdmin]_vars

\* The user and token routes of the /admin router with the configured key,
\* and the route that deletes a user: MaxHandlers requests in flight at a
\* time, in every interleaving of their database steps.  ann exists.
InitPatch ==
    /\ OrchestrationIdle
    /\ users = CommitUser(<< >>, TRUE, Ann, None)
    /\ creates = [r \in Creates |-> IdleCreate]
    /\ emailUnique = TRUE
    /\ tokens = << >>
    /\ adminEnv = [ADMIN_API_TOKEN |-> AdminToken, STRIPE_WEBHOOK_SECRET |-> None]
    /\ handlers = [h \in Handlers |-> IdleHandler]
    /\ BillingIdle

NextPatch ==
    \/ \E h \in Handlers, user_id \in UserIds : AdminGetUser(h, AdminToken, user_id)
    \/ \E h \in Handlers, user_id \in UserIds, body \in PatchBodies :
          UpdateUserSelect(h, AdminToken, user_id, body)
    \/ \E h \in Handlers : UpdateUserCommit(h)
    \/ \E h \in Handlers : UpdateUserRefresh(h)
    \/ \E h \in Handlers, user_id \in UserIds : CreateTokenSelect(h, AdminToken, user_id)
    \/ \E h \in Handlers : CreateTokenCommit(h)
    \/ \E h \in Handlers : CreateTokenRefresh(h)
    \/ \E h \in Handlers, token_id \in TokenIds : DeleteTokenSelect(h, AdminToken, token_id)
    \/ \E h \in Handlers, stale \in Undecided : DeleteTokenCommit(h, stale)
    \/ \E h \in Handlers, user_id \in UserIds : CoreCreateTokenSelect(h, user_id)
    \/ \E h \in Handlers, token_value \in TokenValues : CoreCreateTokenUnique(h, token_value)
    \/ \E h \in Handlers : CoreCreateTokenCommit(h)
    \/ \E h \in Handlers : CoreCreateTokenRefresh(h)
    \/ \E h \in Handlers, user_id \in UserIds : DeleteUserSelect(h, user_id)
    \/ \E h \in Handlers, undecided \in Undecided : DeleteUserCommit(h, undecided)

SpecPatch == InitPatch /\ [][NextPatch]_vars

\* The Stripe webhook, with and without STRIPE_WEBHOOK_SECRET, together with
\* the requests of the user's own routes that change the same row: ann has
\* an API token.
\* The PATCH requests made while webhooks are in flight.
WebhookPatchBodies ==
    {[data |-> PatchData], [max_concurrent_bots |-> 2], [max_concurrent_bots |-> 1]}

InitWebhook ==
    /\ OrchestrationIdle
    /\ users = CommitUser(<< >>, TRUE, Ann, None)
    /\ creates = [r \in Creates |-> IdleCreate]
    /\ emailUnique = TRUE
    /\ tokens = <<[id |-> 1, user_id |-> 1, token |-> generate_secure_token(1), live |-> TRUE]>>
    /\ \E secret \in {None, "", WebhookSecret} :
          adminEnv = [ADMIN_API_TOKEN |-> AdminToken, STRIPE_WEBHOOK_SECRET |-> secret]
    /\ handlers = [h \in Handlers |-> IdleHandler]
    /\ BillingIdle

NextWebhook ==
    \/ \E req \in WebhookRequests : WebhookReceive(1, req)
    \/ CreateCommit(1)
    \/ CreateRefresh(1)
    \/ WebhookCommit(1)
    \/ WebhookRefresh(1)
    \/ \E api_key \in ApiKeys, url \in WebhookUrls : SetWebhookSelect(1, api_key, url)
    \/ SetWebhookCommit(1)
    \/ SetWebhookRefresh(1)
    \/ \E body \in WebhookPatchBodies : UpdateUserSelect(1, AdminToken, 1, body)
    \/ UpdateUserCommit(1)
    \/ UpdateUserRefresh(1)
    \/ \E token_value \in TokenValues : RemoveTokenSelect(1, token_value)
    \/ \E stale \in Undecided : RemoveTokenCommit(1, stale)

SpecWebhook == InitWebhook /\ [][NextWebhook]_vars

\* Plans: the routes that create, change and delete plans, MaxPlanCalls
\* requests in flight at a time, in every interleaving of their database
\* steps.
InitPlans ==
    /\ OrchestrationIdle
    /\ users = CommitUser(<< >>, TRUE, Ann, None)
    /\ creates = [r \in Creates |-> IdleCreate]
    /\ emailUnique = TRUE
    /\ tokens = << >>
    /\ adminEnv = [ADMIN_API_TOKEN |-> None, STRIPE_WEBHOOK_SECRET |-> None]
    /\ handlers = [h \in Handlers |-> IdleHandler]
    /\ BillingIdle

NextPlans ==
    \/ \E r \in PlanCalls, body \in PlanCreateBodies : PlanCreateCheck(r, body)
    \/ \E r \in PlanCalls : PlanCreateFlush(r)
    \/ \E r \in PlanCalls : PlanCreateCommit(r)
    \/ \E r \in PlanCalls : PlanCreateRefresh(r)
    \/ \E r \in PlanCalls, plan_id \in PlanIds, body \in PlanUpdateBodies :
          PlanUpdateRead(r, plan_id, body)
    \/ \E r \in PlanCalls : PlanUpdateCheck(r)
    \/ \E r \in PlanCalls : PlanUpdateCommit(r)
    \/ \E r \in PlanCalls : PlanUpdateRefresh(r)
    \/ \E r \in PlanCalls, plan_id \in PlanIds : PlanDeleteRead(r, plan_id)
    \/ \E r \in PlanCalls : PlanDeleteCascade(r)
    \/ \E r \in PlanCalls, stale \in Undecided : PlanDeleteCommit(r, stale)

SpecPlans == InitPlans /\ [][NextPlans]_vars

\* Plan assignments: the routes that assign plans to users, together with
\* the route that deletes plans.  ann exists, and so do the plans free and pro.
SomePlan(id, name) == [id |-> id, name |-> name, max_concurrent_bots |-> 1,
                       model_limits |-> << >>, live |-> TRUE, pending |-> FALSE]

InitAssign ==
    /\ OrchestrationIdle
    /\ users = CommitUser(<< >>, TRUE, Ann, None)
    /\ creates = [r \in Creates |-> IdleCreate]
    /\ emailUnique = TRUE
    /\ tokens = << >>
    /\ adminEnv = [ADMIN_API_TOKEN |-> None, STRIPE_WEBHOOK_SECRET |-> None]
    /\ handlers = [h \in Handlers |-> IdleHandler]
    /\ plans = <<SomePlan(1, "free"), SomePlan(2, "pro")>>
    /\ userPlans = << >>
    /\ planCalls = [r \in PlanCalls |-> IdlePlanCall]

NextAssign ==
    \/ \E r \in PlanCalls, plan_id \in PlanIds : PlanDeleteRead(r, plan_id)
    \/ \E r \in PlanCalls : PlanDeleteCascade(r)
    \/ \E r \in PlanCalls, stale \in Undecided : PlanDeleteCommit(r, stale)
    \/ \E r \in PlanCalls, user_id \in UserIds, body \in UserPlanCreateBodies :
          AssignPlanReadUser(r, user_id, body)
    \/ \E r \in PlanCalls : AssignPlanReadPlan(r)
    \/ \E r \in PlanCalls : AssignPlanReadCurrent(r)
    \/ \E r \in PlanCalls : AssignPlanCommit(r)
    \/ \E r \in PlanCalls, user_id \in UserIds, body \in UserPlanUpdateBodies :
          UpdateAssignmentRead(r, user_id, body)
    \/ \E r \in PlanCalls : UpdateAssignmentCheckPlan(r)
    \/ \E r \in PlanCalls : UpdateAssignmentCommit(r)
    \/ \E r \in PlanCalls : UserPlanRefresh(r)
    \/ \E r \in PlanCalls : UserPlanRefetch(r)
    \/ \E r \in PlanCalls, user_id \in UserIds : RemoveAssignmentRead(r, user_id)
    \/ \E r \in PlanCalls, stale \in Undecided : RemoveAssignmentCommit(r, stale)

SpecAssign == InitAssign /\ [][NextAssign]_vars

\* ------------------------------------------------------------------- claims
\* Calls of a user that hold one of the user's quota slots: admitted and not yet
\* returned to the caller, or recorded as a pending or running session.
Holding(u) ==
    {c \in InFlight : calls[c].req.user_id = u} \cup ActiveSessions(sessions, u)

CallsOf(u) == {c \in Started : calls[c].req.user_id = u}

ResultsOf(u, r) == {c \in CallsOf(u) : calls[c].pc = "done" /\ calls[c].result = r}

\* C1: for every user, the sessions in status pending or running never exceed the
\* user's plan limit, and neither do the calls that passed admission and hold a
\* slot: two concurrent StartBot calls never both pass when one slot remains.
C1_QuotaNeverExceeded ==
    \A u \in Users :
        /\ Cardinality(ActiveSessions(sessions, u)) <= planLimit[u]
        /\ Cardinality(Holding(u)) <= planLimit[u]

\* C1 witness: with limit 2 and one session active, of two concurrent calls of
\* the same user one holds the last slot, its POST sent and not yet answered,
\* and the other has been rejected with QuotaExceeded.
C1_Witness ==
    \E u \in Users : \E b, c, d \in CallsOf(u) :
        /\ planLimit[u] = 2
        /\ b \in ActiveSessions(sessions, u)
        /\ calls[c].pc = "posted"
        /\ calls[d].result = "QuotaExceeded"

\* The scenario of C2 for user u: exactly three StartBot calls were issued, all by
\* u and for distinct meetings, all have returned, the backend accepted every
\* dispatch, and no session has ended since (no slot was handed back).
C2_Scenario(u) ==
    /\ planLimit[u] = 2
    /\ Cardinality(Started) = 3
    /\ CallsOf(u) = Started
    /\ \A c \in Started : calls[c].pc = "done"
    /\ \A c \in Started : calls[c].outcome \in AcceptedOutcomes \cup {"none"}
    /\ \A c, d \in Started : c # d => calls[c].req.meeting_id # calls[d].req.meeting_id
    /\ \A c \in DOMAIN sessions : sessions[c].status \in ActiveStatus

\* C2: with plan limit 2 and three concurrent StartBot calls of one user for
\* distinct meetings, every dispatch accepted, exactly two calls return a
\* SessionHandle and exactly one fails with QuotaExceeded.
C2_TwoOfThreeAdmitted ==
    \A u \in Users :
        C2_Scenario(u) =>
            /\ Cardinality(ResultsOf(u, "SessionHandle")) = 2
            /\ Cardinality(ResultsOf(u, "QuotaExceeded")) = 1

\* C2 witness: the scenario has run to its end, one accepted dispatch having
\* carried no job id, and two handles and one QuotaExceeded were returned.
C2_Witness ==
    \E u \in Users :
        /\ C2_Scenario(u)
        /\ \E c \in Started : calls[c].outcome = "ok_noid"
        /\ Cardinality(ResultsOf(u, "SessionHandle")) = 2
        /\ Cardinality(ResultsOf(u, "QuotaExceeded")) = 1

\* C3: a StartBot call whose dispatch the backend rejected outright returns
\* DispatchFailed, leaves no session record for the attempt, and no longer holds
\* the quota slot it had reserved.
C3_DispatchFailedLeavesNothing ==
    \A c \in Calls :
        (calls[c].pc = "done" /\ calls[c].outcome \in RejectedOutcomes) =>
            /\ calls[c].result = "DispatchFailed"
            /\ c \notin DOMAIN sessions
            /\ c \notin LeasesOf(leases, calls[c].req.user_id)

\* C3 witness: a call has returned DispatchFailed after an HTTP error status.
C3_Witness ==
    \E c \in Calls :
        /\ calls[c].pc = "done" /\ calls[c].outcome = "http_error"
        /\ calls[c].result = "DispatchFailed"
        /\ c \notin DOMAIN sessions
        /\ c \notin LeasesOf(leases, calls[c].req.user_id)

\* The worker launched by call c is up.
WorkerLive(c) == \E j \in JobsOfConnection(uuid4(c, 1)) : JobLive(j)

\* The step ends a Reconciler pass for u: the driver's call returns and the
\* snapshots are diffed against the session records.
PassEnds(u) ==
    \/ recon.pc = "idle" /\ recon' = IdleRecon /\ \E lq \in ListOutcomes : ReconcileList(u, lq)
    \/ /\ recon.pc = "detail" /\ recon.user = u /\ recon' = IdleRecon
       /\ \E q \in DetailOutcomes : ReconcileDetail(q)

\* The step ends a pass for u with a query that succeeded.
PassEndsOk(u) ==
    \/ recon.pc = "idle" /\ recon' = IdleRecon /\ ReconcileList(u, "ok")
    \/ recon.pc = "detail" /\ recon.user = u /\ recon' = IdleRecon /\ ReconcileDetail("ok")

\* The step ends a pass for u with a query that failed.
PassEndsFailed(u) ==
    \/ /\ recon.pc = "idle" /\ recon' = IdleRecon
       /\ \E lq \in ListOutcomes \ {"ok"} : ReconcileList(u, lq)
    \/ /\ recon.pc = "detail" /\ recon.user = u /\ recon' = IdleRecon
       /\ ReconcileDetail("transport_error")

\* The connection ids the pass in progress has found running so far.
FoundSoFar == {b.connection_id : b \in recon.running_bots}

\* C4: when a dispatch timed out although the backend launched the worker, the
\* next Reconciler pass whose queries succeed leaves the attempt with a session
\* in status running, matched to the worker by connection_id.
C4_AmbiguousLaunchPromoted ==
    [][\A u \in Users :
         PassEndsOk(u) =>
            \A c \in Calls :
                ( /\ calls[c].pc = "done" /\ calls[c].outcome = "timeout_launched"
                  /\ calls[c].req.user_id = u /\ WorkerLive(c) ) =>
                    /\ c \in DOMAIN sessions'
                    /\ sessions'[c].status = "running"
                    /\ sessions'[c].connection_id = uuid4(c, 1)]_vars

\* The backend job of a connection is gone: no job with that connection id is
\* in status running.
JobGone(connection_id) ==
    \A j \in JobsOfConnection(connection_id) : jobs[j].Status # "running"

\* C5: when the backend job of a pending or running session is gone and no
\* StopBot was called for it, a Reconciler pass that had not found the job
\* running before it went ends by moving the session to stopped (to failed if
\* it was still pending) and releasing its slot, and the user's next StartBot
\* can be admitted.
C5_VanishedJobReconciled ==
    [][\A u \in Users :
         PassEnds(u) =>
            \A c \in ActiveSessions(sessions, u) :
                ( /\ JobGone(sessions[c].connection_id) /\ ~sessions[c].stop_acked
                  /\ sessions[c].connection_id \notin FoundSoFar ) =>
                    /\ sessions'[c].status =
                          (IF sessions[c].status = "running" THEN "stopped" ELSE "failed")
                    /\ c \notin LeasesOf(leases', u)
                    /\ GateHasSlot(u)']_vars

\* C5 witness: a session that ran, whose worker crashed without a stop request,
\* is stopped and its slot is free.
C5_Witness ==
    \E c \in DOMAIN sessions :
        /\ sessions[c].status = "stopped" /\ ~sessions[c].stop_acked
        /\ \E j \in JobsOfConnection(sessions[c].connection_id) :
              jobs[j].Status = "dead" /\ jobs[j].Allocs = {"failed"}
        /\ c \notin LeasesOf(leases, sessions[c].user_id)
        /\ GateHasSlot(sessions[c].user_id)

\* C6: after StopBot was acknowledged for a running session, a Reconciler pass
\* whose queries succeed leaves the session stopped and its slot free.
C6_StopThenReconcileStops ==
    [][\A u \in Users :
         PassEndsOk(u) =>
            \A c \in ActiveSessions(sessions, u) :
                (sessions[c].stop_acked /\ sessions[c].status = "running") =>
                    /\ sessions'[c].status = "stopped"
                    /\ c \notin LeasesOf(leases', u)]_vars

\* The state a Reconciler pass for u at time now leaves, from the session store
\* S and the leases L, when the driver lists snaps.
PassResult(S, L, u, snaps, now) ==
    [sessions |-> ReconcileSessions(S, u, snaps, now),
     leases |-> ReconcileLeases(S, L, u, snaps, now)]

\* The session records without the times of their last check.
WithoutTimes(S) == [c \in DOMAIN S |-> [S[c] EXCEPT !.last_verified_at = 0]]

\* C7: a second Reconciler pass right after the first, on the same backend and
\* with no request in between, leaves the state the first pass left, whatever
\* the driver's queries of the two passes were answered: no session changes
\* its status or another field and no lease is released.  The time of the last
\* check, which every pass writes for the sessions it finds (spec 4.4), is not
\* counted as a change.
C7_ReconcileIdempotent ==
    \A u \in Users, lq1 \in ListOutcomes, lq2 \in ListOutcomes :
        \A dq1 \in DetailAnswers(u), dq2 \in DetailAnswers(u) :
            LET first  == PassResult(sessions, leases, u,
                                     get_running_bots_status(u, lq1, dq1), Now(sessions))
                second == PassResult(first.sessions, first.leases, u,
                                     get_running_bots_status(u, lq2, dq2), Now(first.sessions))
            IN  /\ WithoutTimes(second.sessions) = WithoutTimes(first.sessions)
                /\ second.leases = first.leases

\* C8: a start invocation issues exactly one dispatch POST, whatever its outcome,
\* and at most one job carries its connection id.
C8_OneDispatchPerStart ==
    \A c \in Calls :
        /\ calls[c].pc \in {"idle", "admitted"} => calls[c].posts = 0
        /\ calls[c].pc \in {"posted", "returned"} \/ calls[c].outcome # "none" =>
              /\ calls[c].posts = 1
              /\ Cardinality(JobsOfConnection(uuid4(c, 1))) <= 1

\* C8 witness: a start whose POST timed out has returned after one POST, with
\* the one job it launched.
C8_Witness ==
    \E c \in Calls :
        /\ calls[c].pc = "done" /\ calls[c].outcome = "timeout_launched"
        /\ calls[c].posts = 1
        /\ Cardinality(JobsOfConnection(uuid4(c, 1))) = 1

Returned == {c \in Calls : calls[c].pc \in {"returned", "done"} /\ calls[c].outcome # "none"}

\* C9: the value start returns for an ambiguous dispatch (timeout, transport
\* failure) differs from the value it returns for an outright rejection (HTTP
\* error status) and from a success.
C9_AmbiguousDistinguished ==
    \A c, d \in Returned :
        calls[c].outcome \in AmbiguousOutcomes =>
            /\ calls[d].outcome \in RejectedOutcomes => calls[c].ret # calls[d].ret
            /\ calls[d].outcome \in AcceptedOutcomes => calls[c].ret # calls[d].ret

\* C10: after a StartBot whose dispatch ended ambiguous has returned, a session
\* record of the attempt exists, and while it is pending its slot is reserved.
C10_AmbiguousSessionKept ==
    \A c \in Calls :
        (calls[c].pc = "done" /\ calls[c].outcome \in AmbiguousOutcomes) =>
            /\ c \in DOMAIN sessions
            /\ sessions[c].status = "pending" => c \in LeasesOf(leases, calls[c].req.user_id)

\* C11: every start puts a connection_id of its own into the dispatch: no two
\* dispatches, successful or failed, carry the same connection_id, and no two
\* jobs known to the backend do.
C11_FreshConnectionId ==
    /\ \A c, d \in Returned :
          c # d => calls[c].meta.connection_id # calls[d].meta.connection_id
    /\ \A i, j \in DOMAIN jobs :
          i # j => jobs[i].Meta.connection_id # jobs[j].Meta.connection_id

\* C11 witness: the same user asked for the same meeting twice, the first
\* dispatch failed and the second succeeded, each under its own connection_id.
C11_Witness ==
    \E c, d \in Returned :
        /\ c # d /\ calls[c].req = calls[d].req
        /\ calls[c].ret = NoneNone /\ calls[d].ret # NoneNone
        /\ calls[d].ret.connection_id = calls[d].meta.connection_id
        /\ calls[c].meta.connection_id # calls[d].meta.connection_id

SamePair(r, u, m) == r.user_id = u /\ r.meeting_id = m

\* C12: at most one session per (user_id, meeting_id) is pending or running, no
\* start is in flight for a pair that has an active session, and a start that
\* was refused as a duplicate made no dispatch and has no worker and no session.
C12_OneSessionPerMeeting ==
    /\ \A c, d \in DOMAIN sessions :
          (c # d /\ sessions[c].status \in ActiveStatus /\ sessions[d].status \in ActiveStatus)
              => ~SamePair(sessions[c], sessions[d].user_id, sessions[d].meeting_id)
    /\ \A c \in InFlight : \A d \in DOMAIN sessions :
          (d # c /\ sessions[d].status \in ActiveStatus)
              => ~SamePair(calls[c].req, sessions[d].user_id, sessions[d].meeting_id)
    /\ \A c \in Calls :
          calls[c].result = "InvalidRequest" =>
              /\ calls[c].posts = 0 /\ calls[c].meta = NoMeta
              /\ c \notin DOMAIN sessions
              /\ JobsOfConnection(uuid4(c, 1)) = {}

\* C12 witness: a start for a meeting whose session is active was refused
\* without a dispatch, and the first session is still the only one.
C12_Witness ==
    \E c \in Calls : \E d \in DOMAIN sessions :
        /\ calls[c].pc = "done" /\ calls[c].result = "InvalidRequest" /\ calls[c].posts = 0
        /\ d # c /\ sessions[d].status \in ActiveStatus
        /\ SamePair(calls[c].req, sessions[d].user_id, sessions[d].meeting_id)

\* The query reached no answer about the job: transport failure, or a 5xx.
TransientFailures == {"non200", "transport_error"}

\* C13: isRunning does not report "not running" (False) for a worker that is
\* up when its one query to the backend failed transiently.
C13_TransientNotReportedStopped ==
    \A j \in DOMAIN jobs : \A q \in TransientFailures :
        JobLive(j) => verify_container_running(j, q) # FALSE

\* C14: a Reconciler pass that ends on a failed query (the list query got no
\* 200 answer, or a detail query raised) leaves the status and the slot of
\* every session as they were; stated for the sessions whose worker is up,
\* which a pass with answered queries would have kept as well.
C14_FailedQueryKeepsSessions ==
    [][\A u \in Users :
         PassEndsFailed(u) =>
            \A c \in ActiveSessions(sessions, u) :
                WorkerLive(c) =>
                    /\ sessions'[c].status = sessions[c].status
                    /\ c \in LeasesOf(leases', u)]_vars

\* The step is a StopBot of session c: its stop request is noted in this step.
StopCalled(c) == ~sessions[c].stop_acked /\ sessions'[c].stop_acked

\* What the driver returns when the last detail query of the pass in progress
\* is answered with q.
PassSnaps(q) ==
    IF q = "transport_error" THEN {}
    ELSE recon.running_bots \cup DetailBots(Head(recon.todo), recon.user, q)

\* The step ends a Reconciler pass that observed the worker of c absent: the
\* list query was answered, the detail query of no job of c's connection was
\* passed over or failed, and the driver did not list the worker.
ObservedAbsent(c) ==
    LET u == sessions[c].user_id
        mine == JobsOfConnection(sessions[c].connection_id)
    IN  \/ recon.pc = "idle" /\ recon' = IdleRecon /\ ReconcileList(u, "ok")
        \/ /\ recon.pc = "detail" /\ recon.user = u /\ recon' = IdleRecon
           /\ \E q \in DetailOutcomes \ {"transport_error"} :
                 /\ ReconcileDetail(q)
                 /\ mine \cap (recon.passed_over \cup PassedOver(q)) = {}
                 /\ sessions[c].connection_id \notin {b.connection_id : b \in PassSnaps(q)}

\* C15: a StopBot whose driver stop returned false leaves the session's status
\* and slot as they were, and a session becomes stopped only in a step where
\* the driver confirmed the stop or a Reconciler pass found the worker absent.
C15_StoppedOnlyWhenConfirmed ==
    [][\A c \in DOMAIN sessions :
         /\ (StopCalled(c) /\ ~stop_bot_container(sessions[c].backend_job_id)) =>
                /\ sessions'[c].status = sessions[c].status
                /\ leases' = leases
         /\ (sessions[c].status # "stopped" /\ sessions'[c].status = "stopped") =>
                \/ StopCalled(c) /\ stop_bot_container(sessions[c].backend_job_id)
                \/ ObservedAbsent(c)]_vars

MetaKeys == {"user_id", "meeting_id", "meeting_url", "platform", "bot_name", "user_token",
             "native_meeting_id", "connection_id", "language", "task"}
OptionalFields == {"meeting_url", "bot_name", "user_token", "language", "task"}

\* C16: the metadata map of every dispatch has exactly the ten keys, every
\* value is a string (never None, never a number), an optional field the
\* request left out is sent as "", and one it gave is sent as given.
C16_MetadataTenStrings ==
    \A c \in Returned :
        LET meta == calls[c].meta
            req  == calls[c].req
        IN  /\ DOMAIN meta = MetaKeys /\ Cardinality(DOMAIN meta) = 10
            /\ \A k \in MetaKeys : meta[k] \in STRING /\ meta[k] # None
            /\ \A k \in OptionalFields : meta[k] = (IF req[k] = None THEN "" ELSE req[k])
            /\ \A j \in JobsOfConnection(meta.connection_id) : jobs[j].Meta = meta

\* C16 witness: a dispatch was made for a request without meeting_url, language
\* and user_token, and one for a request without bot_name and task; each sent
\* "" for them.
C16_Witness ==
    \E c, d \in Returned :
        /\ calls[c].req.meeting_url = None /\ calls[c].meta.meeting_url = ""
        /\ calls[c].req.language = None /\ calls[c].meta.language = ""
        /\ calls[c].req.user_token = None /\ calls[c].meta.user_token = ""
        /\ calls[d].req.bot_name = None /\ calls[d].meta.bot_name = ""
        /\ calls[d].req.task = None /\ calls[d].meta.task = ""
        /\ calls[c].meta.user_id = str(calls[c].req.user_id)

\* Snapshots an answered listRunningForUser returns for the user of call c
\* under the connection_id that call c got back.
SnapshotsOf(c) ==
    LET u == calls[c].req.user_id
    IN  {b \in get_running_bots_status(u, "ok", AllOk(u)) :
            b.connection_id = calls[c].ret.connection_id}

\* C17: for every start that returned a handle, the connection_id returned is
\* the one in the metadata of the job it dispatched, and while the worker runs
\* listRunningForUser returns one snapshot with that connection_id whose
\* meeting_id, platform, native_meeting_id and bot_name are the values sent at
\* dispatch.
C17_ConnectionIdRoundTrip ==
    \A c \in Calls :
        calls[c].ret # NoneNone =>
            LET j == JobIdOf(c, 1)
                meta == calls[c].meta
            IN  /\ calls[c].ret.connection_id = meta.connection_id
                /\ j \in DOMAIN jobs
                /\ jobs[j].Meta.connection_id = calls[c].ret.connection_id
                /\ JobLive(j) =>
                      /\ Cardinality(SnapshotsOf(c)) = 1
                      /\ \A b \in SnapshotsOf(c) :
                            /\ b.container_id = j
                            /\ b.meeting_id = meta.meeting_id
                            /\ b.platform = meta.platform
                            /\ b.native_meeting_id = meta.native_meeting_id
                            /\ b.bot_name = meta.bot_name

\* C17 witness: two workers of one user run, each listed under the
\* connection_id its start returned.
C17_Witness ==
    \E c, d \in Calls :
        /\ c # d /\ calls[c].req.user_id = calls[d].req.user_id
        /\ calls[c].ret # NoneNone /\ calls[d].ret # NoneNone
        /\ JobLive(JobIdOf(c, 1)) /\ JobLive(JobIdOf(d, 1))
        /\ SnapshotsOf(c) # {} /\ SnapshotsOf(d) # {} /\ SnapshotsOf(c) # SnapshotsOf(d)

\* The connection ids the calls can draw, and the empty one.
ConnectionIds == {uuid4(c, k) : c \in Calls, k \in 1..2} \cup {""}

\* C18: two different connection_ids never give the same command channel key,
\* and a worker that exited on a stop command is the worker of a session for
\* which StopBot published one: a command for one session reaches no worker of
\* another.
C18_ChannelInjective ==
    /\ \A x, y \in ConnectionIds :
          get_bot_command_channel(x) = get_bot_command_channel(y) => x = y
    /\ \A c, d \in DOMAIN sessions :
          c # d => get_bot_command_channel(sessions[c].connection_id)
                      # get_bot_command_channel(sessions[d].connection_id)
    /\ \A j \in DOMAIN jobs :
          jobs[j].Allocs = {"complete"} =>
              \E c \in DOMAIN sessions :
                  /\ sessions[c].stop_acked
                  /\ sessions[c].connection_id = jobs[j].Meta.connection_id

\* C18 witness: of two sessions with workers, one was sent a stop command and
\* its worker exited, while the other's worker is still up.
C18_Witness ==
    \E c, d \in DOMAIN sessions :
        /\ c # d
        /\ sessions[c].stop_acked /\ ~sessions[d].stop_acked
        /\ \E j \in JobsOfConnection(sessions[c].connection_id) : jobs[j].Allocs = {"complete"}
        /\ \E j \in JobsOfConnection(sessions[d].connection_id) : JobLive(j)

\* The step is one of the driver's start of call c: its POST goes out, or the
\* answer comes in and it returns.
DriverStarted(c) ==
    \/ calls[c].pc = "admitted" /\ calls'[c].pc = "posted"
    \/ calls[c].pc = "posted" /\ calls'[c].pc = "returned"

\* C19: the steps in which the driver's start runs leave the session store as
\* it was: no record is created, changed or deleted, whatever the dispatch's
\* outcome.  (stop, isRunning and listRunningForUser are functions of the
\* backend's state and their argument, and write nothing.)
C19_DriverWritesNoSession ==
    [][\A c \in Calls : DriverStarted(c) => sessions' = sessions]_vars

\* C19 witness: the driver's start has returned a handle and launched a job,
\* and there is no session record for it yet.
C19_Witness ==
    \E c \in Calls :
        /\ calls[c].pc = "returned" /\ calls[c].ret # NoneNone
        /\ JobIdOf(c, 1) \in DOMAIN jobs
        /\ c \notin DOMAIN sessions

\* C23: for every start that returned a handle, while the worker it launched
\* is up, isRunning on the returned backend_job_id answers true when its query
\* is answered.
C23_JobIdKnownToBackend ==
    \A c \in Calls :
        (calls[c].ret # NoneNone /\ JobLive(JobIdOf(c, 1))) =>
            verify_container_running(calls[c].ret.container_id, "ok")

\* An answered listRunningForUser(u) has a snapshot with container_id j.
ListedFor(u, j) ==
    \E b \in get_running_bots_status(u, "ok", AllOk(u)) : b.container_id = j

\* C24: with every query answered, for every job whose metadata names user u,
\* listRunningForUser(u) has a snapshot of the job exactly when isRunning of
\* the job is true, and both exactly when the job's Status is "running" and
\* one of its allocations is running.
C24_StatusOperationsAgree ==
    \A u \in Users : \A j \in DOMAIN jobs :
        jobs[j].Meta.user_id = str(u) =>
            /\ ListedFor(u, j) <=> verify_container_running(j, "ok")
            /\ verify_container_running(j, "ok") <=>
                  (jobs[j].Status = "running" /\ "running" \in jobs[j].Allocs)

\* C24 witness: of two jobs of one user, one is up and reported by both
\* operations, the other has Status "running" with no running allocation and
\* is reported by neither.
C24_Witness ==
    \E u \in Users : \E i, j \in DOMAIN jobs :
        /\ jobs[i].Meta.user_id = str(u) /\ jobs[j].Meta.user_id = str(u)
        /\ ListedFor(u, i) /\ verify_container_running(i, "ok")
        /\ jobs[j].Status = "running" /\ jobs[j].Allocs = {"pending"}
        /\ ~ListedFor(u, j) /\ ~verify_container_running(j, "ok")

\* C25: every start returns a pair; both components are set exactly when the
\* POST was answered with a success status and a body that parsed, and both are
\* None in every other case; never one without the other.
C25_AllOrNothing ==
    \A c \in Returned :
        LET reply == ReplyOf(calls[c].outcome, c)
            parsed == reply.kind = "response" /\ is_success(reply.status) /\ reply.json_ok
        IN  /\ (calls[c].ret.container_id = None) <=> (calls[c].ret.connection_id = None)
            /\ parsed => (calls[c].ret.container_id # None /\ calls[c].ret.connection_id # None)
            /\ ~parsed => calls[c].ret = NoneNone

\* C25 witness: one start was answered 200 without any id and returned a full
\* pair, another got no response within the timeout and returned (None, None).
C25_Witness ==
    \E c, d \in Returned :
        /\ calls[c].outcome = "ok_noid"
        /\ calls[c].ret.container_id # None /\ calls[c].ret.connection_id # None
        /\ calls[d].outcome \in {"timeout_launched", "timeout_lost"}
        /\ calls[d].ret = NoneNone

\* ---------------------------------------------------------------- C20
Done == {r \in Creates : creates[r].pc = "done"}

\* C20: no two rows of the users table have the same email, and every create
\* that added no row, its email being in the table already, was answered as the
\* handler answers an existing user: 200 by the admin route and the webhook,
\* 409 by the CRUD route.
C20_EmailsUnique ==
    /\ \A i, k \in LiveUsers(users) : i # k => users[i].email # users[k].email
    /\ \A r \in Done :
          ~creates[r].added =>
              /\ creates[r].status = StatusExisting(creates[r].path)
              /\ creates[r].user # NoUser
              /\ users[creates[r].user].email = creates[r].email

\* ---------------------------------------------------------------- C21, C22
\* The routes of admin_router.
AdminOps == {"get_user", "update_user", "create_token_for_user", "delete_token"}

\* The key is the configured ADMIN_API_TOKEN.
KeyAccepted(key) ==
    ~Falsy(adminEnv.ADMIN_API_TOKEN) /\ key = adminEnv.ADMIN_API_TOKEN

\* In this step a request to a user or token route of admin_router arrives in slot h.
AdminArrives(h) ==
    /\ Free(h)
    /\ handlers'[h] # handlers[h]
    /\ handlers'[h].op \in AdminOps

\* In this step a POST /admin/users arrives in slot r.
AdminCreateArrives(r) ==
    /\ creates[r].pc = "idle"
    /\ creates'[r].pc # "idle"
    /\ creates'[r].path = "admin"

\* What the claim says of a request that arrived with this key and now is at
\* pc with this status: it is turned away with 500 when ADMIN_API_TOKEN is not
\* set, with 403 when the key is not the token, the tables being as before;
\* with the token as its key it is not turned away.
AnsweredByKey(key, pc, status) ==
    LET token == adminEnv.ADMIN_API_TOKEN
        turned_away == pc = "done" /\ status \in {403, 500}
    IN  /\ Falsy(token) => (pc = "done" /\ status = 500)
        /\ (~Falsy(token) /\ key # token) => (pc = "done" /\ status = 403)
        /\ turned_away => (users' = users /\ tokens' = tokens)
        /\ turned_away <=> ~KeyAccepted(key)

\* C21: a request to the /admin router enters its handler exactly when
\* ADMIN_API_TOKEN is set and the X-Admin-API-Key header equals it; with the
\* token unset the answer is 500, with a missing or different key 403, and in
\* both cases the users and the tokens are as before; the users and the tokens
\* change only in steps of requests whose key is the token.
C21_AdminKeyRequired ==
    [][/\ \A h \in Handlers :
            AdminArrives(h) =>
                AnsweredByKey(handlers'[h].key, handlers'[h].pc, handlers'[h].status)
       /\ \A r \in Creates :
            AdminCreateArrives(r) =>
                AnsweredByKey(creates'[r].key, creates'[r].pc, creates'[r].status)
       /\ (users' # users \/ tokens' # tokens) =>
             \/ \E h \in Handlers : handlers'[h] # handlers[h] /\ KeyAccepted(handlers[h].key)
             \/ \E r \in Creates : creates'[r] # creates[r] /\ KeyAccepted(creates[r].key)]_vars

\* C21 witness: with a user and a token in the tables, a request to delete the
\* token was turned away with 403.
C21_Witness ==
    /\ handlers[1].op = "delete_token"
    /\ handlers[1].pc = "done"
    /\ handlers[1].status = 403
    /\ LiveUsers(users) # {}
    /\ LiveTokens(tokens) # {}

\* In this step a PATCH whose body has an email arrives in slot h for a user
\* that has a row.
PatchWithEmailArrives(h) ==
    /\ AdminArrives(h)
    /\ handlers'[h].op = "update_user"
    /\ "email" \in DOMAIN handlers'[h].body
    /\ get_user(users, handlers'[h].arg) # NoUser

\* The fields of the body other than the email and data whose value is not
\* the one in the row.
OtherFieldsGiven(row, body) ==
    {f \in DOMAIN body \ {"email", "data"} : body[f] # row[f]}

\* C22: no step of a PATCH changes any user's email; a PATCH whose body has an
\* email other than the stored one is answered 400 and leaves every row as it
\* was; one whose body has the stored email goes on to write the other fields
\* given and not the email, and its commit does so.
C22_PatchKeepsEmail ==
    [][/\ \A i \in DOMAIN users : i \in DOMAIN users' /\ users'[i].email = users[i].email
       /\ \A h \in Handlers :
            /\ PatchWithEmailArrives(h) =>
                 LET body == handlers'[h].body
                     row == users[handlers'[h].arg]
                 IN  IF body.email # row.email
                     THEN /\ handlers'[h].pc = "done" /\ handlers'[h].status = 400
                          /\ users' = users
                     ELSE /\ handlers'[h].status # 400
                          /\ ~("email" \in DOMAIN handlers'[h].writes)
                          /\ OtherFieldsGiven(row, body) \subseteq DOMAIN handlers'[h].writes
                          /\ \A f \in DOMAIN handlers'[h].writes : handlers'[h].writes[f] = body[f]
            /\ (At(h, "update_user", "commit") /\ handlers'[h].pc = "refresh") =>
                 LET user_id == handlers[h].obj
                 IN  /\ \A f \in DOMAIN handlers[h].writes :
                            users'[user_id][f] = handlers[h].writes[f]
                     /\ \A i \in DOMAIN users : i # user_id => users'[i] = users[i]]_vars

\* C22 witness: a PATCH with another email, a name, a limit and data was
\* answered 400, and the user still has the name, limit and data it was
\* created with.
C22_Witness ==
    \E h \in Handlers :
        /\ handlers[h].op = "update_user"
        /\ handlers[h].pc = "done"
        /\ handlers[h].status = 400
        /\ handlers[h].body.email = "bob@example.com"
        /\ users[handlers[h].arg].email = Ann
        /\ users[handlers[h].arg].name = None
        /\ users[handlers[h].arg].max_concurrent_bots = 1
        /\ users[handlers[h].arg].data = EmptyDict

\* ---------------------------------------------------------------- C26, C27
\* The bot limit of the claim: 0 for an ended status, otherwise the quantity
\* of the first item, 0 without one.
LimitOfClaim(sub) ==
    IF sub.status \in {"canceled", "cancelled", "incomplete_expired", "past_due", "unpaid"}
    THEN 0
    ELSE IF sub.items.data = << >> THEN 0
    ELSE IF "quantity" \in DOMAIN sub.items.data[1] THEN sub.items.data[1].quantity
    ELSE 0

\* In this step the commit of update_user_from_subscription goes through for
\* the request of slot r.
SubscriptionCommitted(r) == creates[r].pc = "updating" /\ creates'[r].pc = "reloading"

\* C26: when update_user_from_subscription has committed, the user of the
\* customer email has max_concurrent_bots and data['max_concurrent_bots'] both
\* equal to the bot limit (0 for canceled, cancelled, incomplete_expired,
\* past_due, unpaid; otherwise the quantity of the first item, 0 without one),
\* and an active or trialing subscription with cancel_at_period_end keeps
\* that quantity and is stored with subscription_status 'scheduled_to_cancel'.
C26_SubscriptionToQuota ==
    [][\A r \in Creates :
         SubscriptionCommitted(r) =>
           LET sub == creates[r].req.event.object
               user == creates[r].user
           IN  /\ users'[user].email = CustomerEmail(sub)
               /\ users'[user].max_concurrent_bots = LimitOfClaim(sub)
               /\ users'[user].data.max_concurrent_bots = LimitOfClaim(sub)
               /\ (sub.status \in {"active", "trialing"} /\ sub.cancel_at_period_end
                     => users'[user].data.subscription_status = "scheduled_to_cancel")
               /\ (~(sub.status \in {"active", "trialing"} /\ sub.cancel_at_period_end)
                     => users'[user].data.subscription_status = sub.status)]_vars

\* The stripe-signature header has a t part and a v1 part that is the HMAC of
\* "<t>.<payload>" under the secret.
SignedUnder(secret, req) ==
    /\ req.signature.present
    /\ \E i, j \in DOMAIN req.signature.parts :
          /\ req.signature.parts[i].k = "t"
          /\ req.signature.parts[j].k = "v1"
          /\ req.signature.parts[j].v =
               HmacSha256(secret, req.signature.parts[i].v \o "." \o req.event.raw)

\* In this step the webhook request of slot r arrives or goes on.
WebhookSteps(r) == creates'[r] # creates[r] /\ creates'[r].path = "webhook"

\* C27: a webhook request changes a user only when STRIPE_WEBHOOK_SECRET is
\* configured, the stripe-signature header is present and its v1 signature is
\* the HMAC of "<t>.<payload>" under the secret, and only for the event types
\* customer.subscription.created, updated and deleted; it changes no token,
\* and it is answered 500 exactly when the secret is not configured.
C27_WebhookNeedsSignature ==
    [][\A r \in Creates :
         WebhookSteps(r) =>
           /\ tokens' = tokens
           /\ (users' # users =>
                 /\ ~Falsy(adminEnv.STRIPE_WEBHOOK_SECRET)
                 /\ SignedUnder(adminEnv.STRIPE_WEBHOOK_SECRET, creates'[r].req)
                 /\ creates'[r].req.event.type \in SubscriptionEvents)
           /\ (creates'[r].req # NoWebhookRequest =>
                 /\ ~Falsy(adminEnv.STRIPE_WEBHOOK_SECRET)
                 /\ SignedUnder(adminEnv.STRIPE_WEBHOOK_SECRET, creates'[r].req)
                 /\ creates'[r].req.event.type \in SubscriptionEvents)
           /\ (creates'[r].status = 500 <=> Falsy(adminEnv.STRIPE_WEBHOOK_SECRET))]_vars

\* C27 witness: with the secret configured a request was refused for its
\* signature, and ann's row is as it was.
C27_Witness ==
    /\ ~Falsy(adminEnv.STRIPE_WEBHOOK_SECRET)
    /\ creates[1].path = "webhook"
    /\ creates[1].pc = "done"
    /\ creates[1].status = 400
    /\ creates[1].req = NoWebhookRequest
    /\ users = CommitUser(<< >>, TRUE, Ann, None)

\* ---------------------------------------------------------------- C28, C29
\* Every assignment refers to a plan that has a row.
AssignmentsReferToPlans ==
    \A i \in LiveAssignments(userPlans) : get_plan(plans, userPlans[i].plan_id) # NoPlan

\* In this step the DELETE of slot r is answered after its commit.
PlanDeleteAnswered(r) == PlanAt(r, "delete_plan", "commit") /\ planCalls'[r].pc = "done"

\* C28: a DELETE of a plan that is assigned to a user is answered 409 and
\* leaves the plans and the assignments as they were, and every assignment
\* refers to an existing plan.
C28_AssignedPlanDeleteConflict ==
    [][/\ AssignmentsReferToPlans'
       /\ \A r \in PlanCalls :
            PlanDeleteAnswered(r) =>
               LET plan_id == planCalls[r].db_obj.id
               IN  (get_plan(plans, plan_id) # NoPlan /\ AssignedTo(userPlans, plan_id) # {})
                      => /\ planCalls'[r].status = 409
                         /\ plans' = plans
                         /\ userPlans' = userPlans]_vars

\* No two plans have the same name.
PlanNamesUnique ==
    \A i, j \in LivePlans(plans) : plans[i].name = plans[j].name => i = j

\* In this step request r, a create or a rename that waited for the
\* database, is answered.
PlanCallEnds(r) ==
    /\ planCalls[r].op \in {"create_plan", "update_plan"}
    /\ planCalls[r].pc \notin {"idle", "done"}
    /\ planCalls'[r].pc = "done"

\* The name request r asks for is held by a plan other than its own when the
\* request is answered.
NameHeldByAnother(r) ==
    LET call == planCalls[r]
    IN  /\ "name" \in DOMAIN call.body
        /\ \E i \in LivePlans(plans) : i # call.db_obj.id /\ plans[i].name = call.body.name

\* C29: after every interleaving of create and rename requests no two plans
\* have the same name, and a create or rename that is answered while another
\* plan holds its name is answered 409 and changes no plan and no plan limit.
C29_NameConflictIs409 ==
    [][/\ PlanNamesUnique'
       /\ \A r \in PlanCalls :
            (PlanCallEnds(r) /\ NameHeldByAnother(r))
               => planCalls'[r].status = 409 /\ plans' = plans]_vars

====
